---- MODULE Spec2Model ----
(***************************************************************************)
(* PodCraft: the audio-generation pipeline (generatePodcastAudio), the WAV *)
(* encoder (createWavBlob), the quota gates of the auth context, the       *)
(* speaker selection and the Generate button of the UI, and the speaker   *)
(* table of the Express server.                                            *)
(***************************************************************************)
EXTENDS Integers, Sequences, FiniteSets, TLC

(***************************************************************************)
(* Bounds of the model.                                                    *)
(***************************************************************************)
\* longest script (number of lines) handed to generatePodcastAudio
MaxLines == 31
\* longest PCM buffer handed to createWavBlob
MaxPcmLen == 4
\* number of POST /api/speakers requests served
MaxPosts == 1
\* last day of the calendar
MaxDay == 2
\* FileReaders of handleVoiceClone loading at the same time
MaxReads == 2
\* startGeneration calls of one run
MaxStarts == 1
\* files of an upload beyond the number the extraction route accepts
MaxExtra == 1
\* speakers added while the backend is unavailable, and steps of the clock
MaxAdds == 2
MaxTicks == 1
\* clicks on the delete button of a speaker card, without a backend
MaxDeletes == 1

(***************************************************************************)
(* Program constants.                                                      *)
(***************************************************************************)
CHUNK_SIZE_Half == 10 \div 2
CHUNK_SIZE == 10

PARALLEL_LIMIT_Over == 3 + 1
PARALLEL_LIMIT == 3

\* let retries = 3
InitialRetries_Over == 3 + 1
InitialRetries == 3

\* const chunkSize = 0x8000 of the final base64 encoding loop
chunkSize == 32768

VARIABLES
    \* ---- generatePodcastAudio ----
    scriptLines,     \* script.lines, the lines are numbered 1..n in script order
    chunkPrompts,    \* sequence of [index, lines]
    totalChunks,     \* Math.ceil(script.lines.length / CHUNK_SIZE)
    mainState,       \* "idle" | "awaiting" | "resolved" | "rejected"
    batchStart,      \* the loop variable i of the batch loop
    task,            \* chunk index -> [pc, retries], the async callbacks of batch.map
    results,         \* results array, in completion order
    completedCount,
    progressCalls,   \* the calls made to onProgress, in order
    requestsSent,    \* chunk index -> number of generateContent calls made (history)
    received,        \* chunk index -> the base64 audio of its successful response (history)
    exhausted,       \* chunk indexes whose callback threw, in the order they threw (history)
    returned,        \* the base64 string the call resolved with
    rejection,       \* the error the call rejected with
    \* ---- createWavBlob ----
    pcmData,         \* the bytes of the ArrayBuffer handed to createWavBlob
    sampleRate,
    wavBlob,         \* the bytes of the Blob it returned
    \* ---- server.ts speaker table and SpeakerManager ----
    table,           \* rows of the speakers table, in rowid order
    sqliteSequence,  \* AUTOINCREMENT: the largest id ever given out
    response,        \* the last response the server sent
    speakers,        \* SpeakerManager state: the speakers on display
    selectedSpeakers,\* App state: the selected Speaker objects
    speakerAlert,    \* the last alert the SpeakerManager showed, "" for none
    server,          \* the server process: "none" | "legacy" (5 seeds) | "current" (server.ts)
    \* ---- AuthContext ----
    user,            \* TRUE while a user is signed in
    profile,         \* AuthProvider state: the loaded profile, NoProfile for null
    dbProfile,       \* the user's row of the profiles table
    today,           \* the current date, as a day number
    isCloning,       \* SpeakerManager state
    cloneReads,      \* FileReaders of handleVoiceClone still loading, with their closures
    authEvent,       \* the handler the last click on the clone label reached (history)
    \* ---- PodcastGenerator ----
    inputText,       \* the text of the input box as a sequence of pieces, <<>> for ''
    selectedImages,  \* number of selected images
    segments,        \* number of segments
    queuePosition,   \* Null for null
    estimatedWaitTime, \* in half minutes, Null for null
    isProcessing,
    isModalOpen,
    status,
    script,
    audioBlob,
    isPlaying,
    gens,            \* the startGeneration calls in progress, with their closures
    started,         \* number of startGeneration calls so far (history)
    studioEvent,     \* the handler the last click on Generate reached (history)
    \* ---- POST /api/extract-pdf and handlePdfUpload ----
    uploadedFiles,   \* PodcastGenerator state: sequence of [name, type]
    uploadPc,        \* handlePdfUpload: "idle" | "awaiting" | "done"
    pdfAlert,        \* the alert handlePdfUpload showed, "" for none
    pdfRequest,      \* req.files of the request to /api/extract-pdf
    serverPc,        \* the request: "idle" | "sent" | "parsing" | "answered"
    fileIndex,       \* position of the for loop of the route in req.files
    extractResults,  \* the results array of the route
    pdfResponse,     \* [status, results] the route answered, status 0 before
    \* ---- SpeakerManager without a backend ----
    localStorage,    \* the item 'custom_speakers' as JSON text, <<>> for null
    clock,           \* Date.now()
    pendingAdds,     \* handleAddSpeaker calls awaiting their fetch, with their newSpeaker
    pendingFetches,  \* number of fetchSpeakers calls awaiting their fetch
    pendingDeletes,  \* handleDeleteSpeaker calls in progress: [id, pc], pc "delete" | "refresh"
    deleteDone,      \* ids whose handleDeleteSpeaker call and its refresh are over (history)
    deleteClicks,    \* number of clicks on a delete button so far (history)
    \* ---- generatePodcastScript ----
    duration,        \* the duration string, as a sequence of characters
    notes,           \* the notes, "" for none
    scriptPc,        \* "idle" | "awaiting" | "resolved" | "rejected"
    targetWordCount, \* the word count the prompt asks for, 0 before the call
    promptNotes,     \* the notes section of the prompt
    scriptError      \* the message of the error the call was rejected with, "" for none

audioVars == <<scriptLines, chunkPrompts, totalChunks, mainState, batchStart, task,
               results, completedCount, progressCalls, requestsSent, received,
               exhausted, returned, rejection>>

wavVars == <<pcmData, sampleRate, wavBlob>>

speakerVars == <<table, sqliteSequence, response, speakers, selectedSpeakers, speakerAlert,
                 server>>

authVars == <<user, profile, dbProfile, today, isCloning, cloneReads, authEvent>>

studioVars == <<inputText, selectedImages, segments, queuePosition, estimatedWaitTime,
                isProcessing, isModalOpen, status, script, audioBlob, isPlaying, gens,
                started, studioEvent>>

pdfVars == <<uploadedFiles, uploadPc, pdfAlert, pdfRequest, serverPc, fileIndex,
             extractResults, pdfResponse>>

localVars == <<localStorage, clock, pendingAdds, pendingFetches, pendingDeletes, deleteDone,
               deleteClicks>>

scriptVars == <<duration, notes, scriptPc, targetWordCount, promptNotes, scriptError>>

vars == <<audioVars, wavVars, speakerVars, authVars, studioVars, pdfVars, localVars,
          scriptVars>>

None == "none"

\* null of a numeric field
Null == 0 - 1

Min(a, b) == IF a < b THEN a ELSE b

(***************************************************************************)
(* base64: atob / btoa.  A base64 string is a sequence of symbol indexes   *)
(* 0..63 with 64 standing for the padding character '='; a binary string   *)
(* is the sequence of its char codes.                                      *)
(***************************************************************************)
Pad == 64

RECURSIVE btoa(_)
btoa(bin) ==
    IF Len(bin) = 0 THEN <<>>
    ELSE IF Len(bin) = 1 THEN
        << bin[1] \div 4, (bin[1] % 4) * 16, Pad, Pad >>
    ELSE IF Len(bin) = 2 THEN
        << bin[1] \div 4, (bin[1] % 4) * 16 + bin[2] \div 16, (bin[2] % 16) * 4, Pad >>
    ELSE
        << bin[1] \div 4, (bin[1] % 4) * 16 + bin[2] \div 16,
           (bin[2] % 16) * 4 + bin[3] \div 64, bin[3] % 64 >>
        \o btoa(SubSeq(bin, 4, Len(bin)))

RECURSIVE atob(_)
atob(b64) ==
    IF Len(b64) < 4 THEN <<>>
    ELSE
        LET s == SubSeq(b64, 1, 4)
            b1 == s[1] * 4 + s[2] \div 16
            b2 == (s[2] % 16) * 16 + (IF s[3] = Pad THEN 0 ELSE s[3] \div 4)
            b3 == ((IF s[3] = Pad THEN 0 ELSE s[3]) % 4) * 64 + (IF s[4] = Pad THEN 0 ELSE s[4])
            grp == IF s[3] = Pad THEN <<b1>>
                   ELSE IF s[4] = Pad THEN <<b1, b2>>
                   ELSE <<b1, b2, b3>>
        IN  grp \o atob(SubSeq(b64, 5, Len(b64)))

\* new Uint8Array(binaryString.length); bytes[j] = binaryString.charCodeAt(j)
ToBytes(bin) == [j \in 1..Len(bin) |-> bin[j] % 256]

\* binary += String.fromCharCode.apply(null, combinedPcm.subarray(i, i + chunkSize))
RECURSIVE FromCharCodes(_, _)
FromCharCodes(bytes, i) ==
    IF i >= Len(bytes) THEN <<>>
    ELSE SubSeq(bytes, i + 1, Min(i + chunkSize, Len(bytes)))
         \o FromCharCodes(bytes, i + chunkSize)

(***************************************************************************)
(* Chunking of the script.                                                 *)
(***************************************************************************)
\* Array.prototype.slice(from, to) on a 0-based array held as a 1-based sequence
Slice_Short(arr, from, to) == SubSeq(arr, from + 1, Min(to, Len(arr)) - 1)
Slice(arr, from, to) == SubSeq(arr, from + 1, Min(to, Len(arr)))

\* Math.ceil(a / b) for a >= 0, b > 0
CeilDiv_Floor(a, b) == a \div b
CeilDiv(a, b) == (a + b - 1) \div b

\* for (let i = 0; i < script.lines.length; i += CHUNK_SIZE) chunkPrompts.push(...)
RECURSIVE BuildChunkPrompts(_, _)
BuildChunkPrompts(lines, i) ==
    IF i >= Len(lines) THEN <<>>
    ELSE << [index |-> i \div CHUNK_SIZE, lines |-> Slice(lines, i, i + CHUNK_SIZE)] >>
         \o BuildChunkPrompts(lines, i + CHUNK_SIZE)

(***************************************************************************)
(* Reassembly.                                                             *)
(***************************************************************************)
\* results.sort((a, b) => a.index - b.index): a stable sort by index
RECURSIVE InsertByIndex(_, _)
InsertByIndex(sorted, r) ==
    IF Len(sorted) = 0 THEN <<r>>
    ELSE IF sorted[Len(sorted)].index <= r.index THEN Append(sorted, r)
    ELSE Append(InsertByIndex(SubSeq(sorted, 1, Len(sorted) - 1), r), sorted[Len(sorted)])

SortByIndex_Unsorted(rs) == rs

RECURSIVE SortByIndex(_)
SortByIndex(rs) ==
    IF Len(rs) = 0 THEN <<>>
    ELSE InsertByIndex(SortByIndex(SubSeq(rs, 1, Len(rs) - 1)), rs[Len(rs)])

\* combinedPcm: every pcm chunk copied at the running offset
RECURSIVE ConcatData(_)
ConcatData(rs) ==
    IF Len(rs) = 0 THEN <<>>
    ELSE rs[1].data \o ConcatData(SubSeq(rs, 2, Len(rs)))

(***************************************************************************)
(* The TTS API (ai.models.generateContent) as seen by the pipeline.        *)
(***************************************************************************)
\* raw PCM a response may carry
PcmSamples == { <<17>>, <<200, 255>> }

\* response.candidates[0].content.parts[0].inlineData.data of a good response
AudioResponses == { btoa(p) : p \in PcmSamples }

\* a request that throws, or a response without audio data
FailKinds == { "throw", "nodata" }

\* const batch = chunkPrompts.slice(i, i + PARALLEL_LIMIT)
Batch(i) == Slice(chunkPrompts, i, i + PARALLEL_LIMIT)

\* the chunks whose callbacks Promise.all(batch.map(...)) waits for
BatchIndexes_FirstOnly(i) == { Batch(i)[j].index : j \in 1..Min(1, Len(Batch(i))) }
BatchIndexes(i) == { Batch(i)[j].index : j \in 1..Len(Batch(i)) }

InFlight == { k \in DOMAIN task : task[k].pc = "inflight" }

\* batch.map(async ...) runs every callback up to its first await:
\* retries = 3 and the generateContent request is issued
StartBatch(t, prompts, i) ==
    LET b == Slice(prompts, i, i + PARALLEL_LIMIT)
        idx == { b[j].index : j \in 1..Len(b) }
    IN  [k \in DOMAIN t |->
            IF k \in idx THEN [pc |-> "inflight", retries |-> InitialRetries] ELSE t[k]]

CountStarted(sent, prompts, i) ==
    LET b == Slice(prompts, i, i + PARALLEL_LIMIT)
        idx == { b[j].index : j \in 1..Len(b) }
    IN  [k \in DOMAIN sent |-> IF k \in idx THEN sent[k] + 1 ELSE sent[k]]

NoAudioError == [chunk |-> Null, kind |-> "Failed to generate audio. No audio data returned."]

\* lines 265-288: sort, collect, concatenate, encode
Finalize_NoCheck(rs) ==
    LET sorted == SortByIndex(rs)
        combinedPcm == ConcatData(sorted)
    IN  [state |-> "resolved", value |-> btoa(FromCharCodes(combinedPcm, 0)), error |-> None]

Finalize(rs) ==
    LET sorted == SortByIndex(rs)
        combinedPcm == ConcatData(sorted)
    IN  IF Len(sorted) = 0
        THEN [state |-> "rejected", value |-> None, error |-> NoAudioError]
        ELSE [state |-> "resolved", value |-> btoa(FromCharCodes(combinedPcm, 0)), error |-> None]

AudioInit ==
    /\ scriptLines \in { [j \in 1..n |-> j] : n \in 0..MaxLines }
    /\ chunkPrompts = <<>>
    /\ totalChunks = 0
    /\ mainState = "idle"
    /\ batchStart = 0
    /\ task = <<>>
    /\ results = <<>>
    /\ completedCount = 0
    /\ progressCalls = <<>>
    /\ requestsSent = <<>>
    /\ received = <<>>
    /\ exhausted = <<>>
    /\ returned = None
    /\ rejection = None

\* generatePodcastAudio(script, speakers, onProgress) up to its first await
Invoke ==
    /\ mainState = "idle"
    /\ LET prompts == BuildChunkPrompts(scriptLines, 0)
           idle == [k \in 0..(Len(prompts) - 1) |-> [pc |-> "idle", retries |-> 0]]
           zero == [k \in 0..(Len(prompts) - 1) |-> 0]
       IN  /\ chunkPrompts' = prompts
           /\ totalChunks' = CeilDiv(Len(scriptLines), CHUNK_SIZE)
           /\ batchStart' = 0
           /\ received' = [k \in 0..(Len(prompts) - 1) |-> None]
           /\ IF 0 < Len(prompts)
              THEN /\ task' = StartBatch(idle, prompts, 0)
                   /\ requestsSent' = CountStarted(zero, prompts, 0)
                   /\ mainState' = "awaiting"
                   /\ UNCHANGED <<returned, rejection>>
              ELSE /\ task' = idle
                   /\ requestsSent' = zero
                   /\ mainState' = Finalize(results).state
                   /\ returned' = Finalize(results).value
                   /\ rejection' = Finalize(results).error
    /\ UNCHANGED <<scriptLines, results, completedCount, progressCalls, exhausted>>
    /\ UNCHANGED <<wavVars, speakerVars, authVars, studioVars, pdfVars, localVars, scriptVars>>

\* the awaited generateContent of chunk k returns audio data
TTSSuccess(k, audioData) ==
    /\ k \in DOMAIN task
    /\ task[k].pc = "inflight"
    /\ LET rs == Append(results, [index |-> k, data |-> ToBytes(atob(audioData))])
           t1 == [task EXCEPT ![k].pc = "done"]
           joined == /\ mainState = "awaiting"
                     /\ \A j \in BatchIndexes(batchStart) : t1[j].pc = "done"
           next == batchStart + PARALLEL_LIMIT
       IN  /\ results' = rs
           /\ completedCount' = completedCount + 1
           /\ progressCalls' = Append(progressCalls, <<completedCount + 1, totalChunks>>)
           /\ received' = [received EXCEPT ![k] = audioData]
           /\ IF ~joined
              THEN /\ task' = t1
                   /\ UNCHANGED <<batchStart, requestsSent, mainState, returned, rejection>>
              ELSE IF next < Len(chunkPrompts)
              THEN /\ batchStart' = next
                   /\ task' = StartBatch(t1, chunkPrompts, next)
                   /\ requestsSent' = CountStarted(requestsSent, chunkPrompts, next)
                   /\ UNCHANGED <<mainState, returned, rejection>>
              ELSE /\ batchStart' = next
                   /\ task' = t1
                   /\ mainState' = Finalize(rs).state
                   /\ returned' = Finalize(rs).value
                   /\ rejection' = Finalize(rs).error
                   /\ UNCHANGED requestsSent
    /\ UNCHANGED <<scriptLines, chunkPrompts, totalChunks, exhausted>>
    /\ UNCHANGED <<wavVars, speakerVars, authVars, studioVars, pdfVars, localVars, scriptVars>>

\* the awaited generateContent of chunk k throws, or returns no audio data
TTSFail(k, kind) ==
    /\ k \in DOMAIN task
    /\ task[k].pc = "inflight"
    /\ LET left == task[k].retries - 1
       IN  IF left = 0
           THEN /\ task' = [task EXCEPT ![k] = [pc |-> "failed", retries |-> 0]]
                /\ exhausted' = Append(exhausted, k)
                /\ IF mainState = "awaiting"
                   THEN /\ mainState' = "rejected"
                        /\ rejection' = [chunk |-> k, kind |-> kind]
                   ELSE UNCHANGED <<mainState, rejection>>
           ELSE /\ task' = [task EXCEPT ![k] = [pc |-> "backoff", retries |-> left]]
                /\ UNCHANGED <<exhausted, mainState, rejection>>
    /\ UNCHANGED <<scriptLines, chunkPrompts, totalChunks, batchStart, results,
                   completedCount, progressCalls, requestsSent, received, returned>>
    /\ UNCHANGED <<wavVars, speakerVars, authVars, studioVars, pdfVars, localVars, scriptVars>>

\* the backoff timer of chunk k fires: the while loop issues the next request
BackoffElapsed(k) ==
    /\ k \in DOMAIN task
    /\ task[k].pc = "backoff"
    /\ task[k].retries > 0
    /\ task' = [task EXCEPT ![k].pc = "inflight"]
    /\ requestsSent' = [requestsSent EXCEPT ![k] = @ + 1]
    /\ UNCHANGED <<scriptLines, chunkPrompts, totalChunks, mainState, batchStart, results,
                   completedCount, progressCalls, received, exhausted, returned, rejection>>
    /\ UNCHANGED <<wavVars, speakerVars, authVars, studioVars, pdfVars, localVars, scriptVars>>

AudioNext ==
    \/ Invoke
    \/ \E k \in 0..(CeilDiv(MaxLines, CHUNK_SIZE) - 1), a \in AudioResponses : TTSSuccess(k, a)
    \/ \E k \in 0..(CeilDiv(MaxLines, CHUNK_SIZE) - 1), f \in FailKinds : TTSFail(k, f)
    \/ \E k \in 0..(CeilDiv(MaxLines, CHUNK_SIZE) - 1) : BackoffElapsed(k)


(***************************************************************************)
(* createWavBlob.                                                          *)
(***************************************************************************)
\* DataView.setUint32(offset, value, true) and setUint16(offset, value, true)
\* (the four low bytes of the value: taking each byte modulo 256 is the truncation
\* to 32 bits)
Uint32LE(v) ==
    << v % 256, (v \div 256) % 256, (v \div 65536) % 256, (v \div 16777216) % 256 >>

Uint16LE(v) ==
    LET w == v % 65536
    IN  << w % 256, (w \div 256) % 256 >>

\* writeString(view, offset, string): the char codes of the four tags
TagRIFF == << 82, 73, 70, 70 >>
TagWAVE == << 87, 65, 86, 69 >>
TagFmt  == << 102, 109, 116, 32 >>
TagData == << 100, 97, 116, 97 >>

WavHeader_DataSizeOff(pcm, rate) ==
    TagRIFF \o Uint32LE(36 + Len(pcm)) \o TagWAVE \o TagFmt \o Uint32LE(16)
    \o Uint16LE(1) \o Uint16LE(1) \o Uint32LE(rate) \o Uint32LE(rate * 2)
    \o Uint16LE(2) \o Uint16LE(16) \o TagData \o Uint32LE(36 + Len(pcm))

WavHeader(pcm, rate) ==
    TagRIFF \o Uint32LE(36 + Len(pcm)) \o TagWAVE \o TagFmt \o Uint32LE(16)
    \o Uint16LE(1) \o Uint16LE(1) \o Uint32LE(rate) \o Uint32LE(rate * 2)
    \o Uint16LE(2) \o Uint16LE(16) \o TagData \o Uint32LE(Len(pcm))

\* new ArrayBuffer(44 + pcmData.byteLength), header, then wavView.set(pcmView) at 44
createWavBlob(pcm, rate) == WavHeader(pcm, rate) \o pcm

\* bytes the PCM buffers are made of, and the sample rates of the call sites
PcmBytes == { 0, 1, 255 }
SampleRates == { 8000, 24000, 48000 }

RECURSIVE SeqsUpTo(_, _)
SeqsUpTo(S, n) ==
    IF n = 0 THEN { <<>> }
    ELSE LET shorter == SeqsUpTo(S, n - 1)
         IN  shorter \cup { Append(q, x) : q \in { r \in shorter : Len(r) = n - 1 }, x \in S }

WavInit ==
    /\ pcmData \in SeqsUpTo(PcmBytes, MaxPcmLen)
    /\ sampleRate \in SampleRates
    /\ wavBlob = <<>>

\* const wavBlob = createWavBlob(bytes.buffer, 24000)
CreateWav ==
    /\ wavBlob = <<>>
    /\ wavBlob' = createWavBlob(pcmData, sampleRate)
    /\ UNCHANGED <<pcmData, sampleRate>>
    /\ UNCHANGED <<audioVars, speakerVars, authVars, studioVars, pdfVars, localVars, scriptVars>>

WavNext == CreateWav

(***************************************************************************)
(* server.ts: the speakers table and its routes.                           *)
(***************************************************************************)
seedSpeakers ==
    << [name |-> "Alex", isPrebuilt |-> 1],
       [name |-> "Dr. Sarah", isPrebuilt |-> 1],
       [name |-> "Max", isPrebuilt |-> 1],
       [name |-> "Elena", isPrebuilt |-> 1],
       [name |-> "Jordan", isPrebuilt |-> 1],
       [name |-> "Chef Remy", isPrebuilt |-> 1],
       [name |-> "Detective Vance", isPrebuilt |-> 1],
       [name |-> "Professor Lin", isPrebuilt |-> 1] >>

\* insert.run(speaker): INSERT with an AUTOINCREMENT id
InsertRow_StaleId(tbl, seqNo, name, isPrebuilt) ==
    Append(tbl, [id |-> seqNo, name |-> name, isPrebuilt |-> isPrebuilt])

InsertRow(tbl, seqNo, name, isPrebuilt) ==
    Append(tbl, [id |-> seqNo + 1, name |-> name, isPrebuilt |-> isPrebuilt])

\* if (speakerCount.count === 0) for (const speaker of seedSpeakers) insert.run(speaker)
RECURSIVE SeedAll(_, _, _)
SeedAll(tbl, seqNo, j) ==
    IF j > Len(seedSpeakers) THEN tbl
    ELSE SeedAll(InsertRow(tbl, seqNo, seedSpeakers[j].name, seedSpeakers[j].isPrebuilt),
                 seqNo + 1, j + 1)

Rows(tbl) == { tbl[j] : j \in 1..Len(tbl) }
Ids(rows) == { rows[j].id : j \in 1..Len(rows) }

\* DELETE FROM speakers WHERE id = ? AND isPrebuilt = 0
DeleteWhere_AnyRow(tbl, id) == SelectSeq(tbl, LAMBDA r : ~(r.id = id))
DeleteWhere(tbl, id) == SelectSeq(tbl, LAMBDA r : ~(r.id = id /\ r.isPrebuilt = 0))

\* request bodies of POST /api/speakers and ids of DELETE /api/speakers/:id
PostBodies == [name : {"Guest", "Chef Remy"}, isPrebuilt : {0, 1}]
\* (0 and the largest are never in the table, 1 and 6 are pre-built)
DeleteIds == {0, 1, 6} \cup ((Len(seedSpeakers) + 1) .. (Len(seedSpeakers) + MaxPosts + 1))

\* app.post("/api/speakers")
PostSpeaker(body) ==
    /\ server # "none"
    /\ sqliteSequence < Len(seedSpeakers) + MaxPosts
    /\ table' = InsertRow(table, sqliteSequence, body.name, 0)
    /\ sqliteSequence' = sqliteSequence + 1
    /\ response' = [op |-> "POST", id |-> sqliteSequence + 1, success |-> TRUE]
    /\ UNCHANGED <<speakers, selectedSpeakers, speakerAlert, server>>
    /\ UNCHANGED <<audioVars, wavVars, authVars, studioVars, pdfVars, localVars, scriptVars>>

\* app.delete("/api/speakers/:id")
DeleteSpeaker(id) ==
    /\ server # "none"
    /\ table' = DeleteWhere(table, id)
    /\ response' = [op |-> "DELETE", id |-> id, success |-> TRUE]
    /\ UNCHANGED <<sqliteSequence, speakers, selectedSpeakers, speakerAlert, server>>
    /\ UNCHANGED <<audioVars, wavVars, authVars, studioVars, pdfVars, localVars, scriptVars>>

\* part_005, an earlier server.ts: its seedSpeakers are the first 5
legacySeedSpeakers == SubSeq(seedSpeakers, 1, 5)

\* part_005: if (speakerCount.count === 0) for (const speaker of seedSpeakers) insert.run(speaker)
RECURSIVE SeedLegacy(_, _, _)
SeedLegacy(tbl, seqNo, j) ==
    IF j > Len(legacySeedSpeakers) THEN tbl
    ELSE SeedLegacy(InsertRow(tbl, seqNo, legacySeedSpeakers[j].name,
                              legacySeedSpeakers[j].isPrebuilt),
                    seqNo + 1, j + 1)

\* SELECT COUNT(*) as count FROM speakers WHERE name = 'Chef Remy'
chefCount(tbl) == Cardinality({ j \in 1..Len(tbl) : tbl[j].name = "Chef Remy" })

\* lines 59-90 of server.ts: the table and the AUTOINCREMENT sequence after the seeding
StartupSeeding_NoCountCheck(tbl, seqNo) ==
    [table |-> SeedAll(tbl, seqNo, 1), seq |-> seqNo + Len(seedSpeakers)]

StartupSeeding(tbl, seqNo) ==
    IF Len(tbl) = 0
    THEN [table |-> SeedAll(tbl, seqNo, 1), seq |-> seqNo + Len(seedSpeakers)]
    ELSE IF chefCount(tbl) = 0
    THEN \* insert.run(seedSpeakers[5]), [6], [7]
         [table |-> SeedAll(tbl, seqNo, 6), seq |-> seqNo + 3]
    ELSE [table |-> tbl, seq |-> seqNo]

\* server.ts is started (or started again) on podcraft.db: the module code up to app.listen
StartServer ==
    /\ table' = StartupSeeding(table, sqliteSequence).table
    /\ sqliteSequence' = StartupSeeding(table, sqliteSequence).seq
    /\ server' = "current"
    /\ UNCHANGED <<response, speakers, selectedSpeakers, speakerAlert>>
    /\ UNCHANGED <<audioVars, wavVars, authVars, studioVars, pdfVars, localVars, scriptVars>>

\* the earlier server is started (or started again) on podcraft.db, before the upgrade
StartLegacyServer ==
    /\ server \in {"none", "legacy"}
    /\ table' = IF Len(table) = 0 THEN SeedLegacy(table, sqliteSequence, 1) ELSE table
    /\ sqliteSequence' = IF Len(table) = 0 THEN sqliteSequence + Len(legacySeedSpeakers)
                         ELSE sqliteSequence
    /\ server' = "legacy"
    /\ UNCHANGED <<response, speakers, selectedSpeakers, speakerAlert>>
    /\ UNCHANGED <<audioVars, wavVars, authVars, studioVars, pdfVars, localVars, scriptVars>>

\* a new podcraft.db, no server started yet
ServerInit ==
    /\ table = <<>>
    /\ sqliteSequence = 0
    /\ response = [op |-> None, id |-> 0, success |-> TRUE]
    /\ speakers = <<>>
    /\ selectedSpeakers = <<>>
    /\ speakerAlert = ""
    /\ server = "none"

ServerNext ==
    \/ StartLegacyServer
    \/ StartServer
    \/ \E body \in PostBodies : PostSpeaker(body)
    \/ \E id \in DeleteIds : DeleteSpeaker(id)

(***************************************************************************)
(* SpeakerManager: the list on display and the selection.                  *)
(***************************************************************************)
\* fetchSpeakers with the server available: app.get("/api/speakers"), setSpeakers(data)
FetchSpeakers ==
    /\ speakers' = table
    /\ UNCHANGED <<table, sqliteSequence, response, selectedSpeakers, speakerAlert, server>>
    /\ UNCHANGED <<audioVars, wavVars, authVars, studioVars, pdfVars, localVars, scriptVars>>

selectedSpeakerIds == Ids(selectedSpeakers)

\* the value toggleSpeakerSelection hands to onSelectSpeakers
ToggleResult_NoLimit(speaker) ==
    IF speaker.id \in selectedSpeakerIds
    THEN SelectSeq(speakers, LAMBDA x : x.id \in selectedSpeakerIds /\ x.id # speaker.id)
    ELSE Append(SelectSeq(speakers, LAMBDA x : x.id \in selectedSpeakerIds), speaker)

ToggleResult(speaker) ==
    IF speaker.id \in selectedSpeakerIds
    THEN SelectSeq(speakers, LAMBDA x : x.id \in selectedSpeakerIds /\ x.id # speaker.id)
    ELSE IF Len(selectedSpeakers) >= 2
    THEN selectedSpeakers
    ELSE Append(SelectSeq(speakers, LAMBDA x : x.id \in selectedSpeakerIds), speaker)

\* a click on the card of a speaker on display
toggleSpeakerSelection(speaker) ==
    /\ speaker \in Rows(speakers)
    /\ selectedSpeakers' = ToggleResult(speaker)
    /\ speakerAlert' = IF speaker.id \notin selectedSpeakerIds /\ Len(selectedSpeakers) >= 2
                       THEN "Please select only 2 speakers for the podcast."
                       ELSE speakerAlert
    /\ UNCHANGED <<table, sqliteSequence, response, speakers, server>>
    /\ UNCHANGED <<audioVars, wavVars, authVars, studioVars, pdfVars, localVars, scriptVars>>

SpeakerInit ==
    /\ table = SeedAll(<<>>, 0, 1)
    /\ sqliteSequence = Len(seedSpeakers)
    /\ response = [op |-> None, id |-> 0, success |-> TRUE]
    /\ speakers = <<>>
    /\ selectedSpeakers = <<>>
    /\ speakerAlert = ""
    /\ server = "current"

SpeakerNext ==
    \/ \E body \in PostBodies : PostSpeaker(body)
    \/ \E id \in DeleteIds : DeleteSpeaker(id)
    \/ FetchSpeakers
    \/ \E s \in Rows(speakers) : toggleSpeakerSelection(s)

(***************************************************************************)
(* AuthContext: profile, quota gates, counters.                            *)
(***************************************************************************)
NoProfile == [plan |-> "none", clones_used |-> 0, daily_generation_count |-> 0,
              last_generation_date |-> 0]

HasProfile == profile.plan # "none"

\* x || 0
OrZero(x) == IF x = Null THEN 0 ELSE x

\* stands for the number Infinity: larger than every count of the model
Infinity == 2147483647

isPro == profile.plan = "pro"

canClone_NoQuota == isPro \/ HasProfile
canClone == isPro \/ (IF HasProfile THEN profile.clones_used < 1 ELSE FALSE)

dailyLimit == IF isPro THEN Infinity ELSE 1

canGenerate_AtLimit ==
    isPro \/ (IF HasProfile THEN OrZero(profile.daily_generation_count) <= dailyLimit ELSE FALSE)
canGenerate ==
    isPro \/ (IF HasProfile THEN OrZero(profile.daily_generation_count) < dailyLimit ELSE FALSE)

\* fetchProfile(userId): the profile state and the row it leaves behind
\*   outcome "error": the select answers with an error, the fallback profile is set
\*   outcome "throw": the request throws, the catch only logs
\*   updOk: whether the update of the daily reset reaches the database
FetchResult_NoReset(outcome, updOk) ==
    IF outcome = "error"
    THEN [profile |-> [plan |-> "free", clones_used |-> 0, daily_generation_count |-> 0,
                       last_generation_date |-> today],
          db |-> dbProfile]
    ELSE IF outcome = "throw"
    THEN [profile |-> profile, db |-> dbProfile]
    ELSE [profile |-> dbProfile, db |-> dbProfile]

FetchResult(outcome, updOk) ==
    IF outcome = "error"
    THEN [profile |-> [plan |-> "free", clones_used |-> 0, daily_generation_count |-> 0,
                       last_generation_date |-> today],
          db |-> dbProfile]
    ELSE IF outcome = "throw"
    THEN [profile |-> profile, db |-> dbProfile]
    ELSE IF dbProfile.last_generation_date # today
    THEN LET reset == [dbProfile EXCEPT !.daily_generation_count = 0,
                                        !.last_generation_date = today]
         IN  [profile |-> reset, db |-> IF updOk THEN reset ELSE dbProfile]
    ELSE [profile |-> dbProfile, db |-> dbProfile]

\* the ways a fetchProfile can go
FetchCases ==
    { [outcome |-> "ok", updOk |-> TRUE], [outcome |-> "ok", updOk |-> FALSE],
      [outcome |-> "error", updOk |-> TRUE], [outcome |-> "throw", updOk |-> TRUE] }

\* the ways an update of a counter can go: it succeeds, or it fails and fetchProfile runs
UpdateCases ==
    { [dbOk |-> TRUE, outcome |-> "ok", updOk |-> TRUE] }
    \cup { [dbOk |-> FALSE, outcome |-> f.outcome, updOk |-> f.updOk] : f \in FetchCases }

\* fetchProfile after getSession or an auth state change with a session
FetchProfile(outcome, updOk) ==
    /\ user
    /\ profile' = FetchResult(outcome, updOk).profile
    /\ dbProfile' = FetchResult(outcome, updOk).db
    /\ UNCHANGED <<user, today, isCloning, cloneReads, authEvent>>
    /\ UNCHANGED <<audioVars, wavVars, speakerVars, studioVars, pdfVars, localVars, scriptVars>>

\* upgradeToPro: the state it leaves; dbOk is whether the update succeeds
UpgradeResult(dbOk) ==
    IF ~user \/ ~dbOk
    THEN [profile |-> profile, db |-> dbProfile]
    ELSE [profile |-> IF HasProfile THEN [profile EXCEPT !.plan = "pro"] ELSE NoProfile,
          db |-> [dbProfile EXCEPT !.plan = "pro"]]

\* onAuthStateChange without a session, and signOut
SignOut ==
    /\ user
    /\ user' = FALSE
    /\ profile' = NoProfile
    /\ UNCHANGED <<dbProfile, today, isCloning, cloneReads, authEvent>>
    /\ UNCHANGED <<audioVars, wavVars, speakerVars, studioVars, pdfVars, localVars, scriptVars>>

\* onAuthStateChange with a session: setUser, then fetchProfile
SignIn(outcome, updOk) ==
    /\ ~user
    /\ user' = TRUE
    /\ profile' = FetchResult(outcome, updOk).profile
    /\ dbProfile' = FetchResult(outcome, updOk).db
    /\ UNCHANGED <<today, isCloning, cloneReads, authEvent>>
    /\ UNCHANGED <<audioVars, wavVars, speakerVars, studioVars, pdfVars, localVars, scriptVars>>

NewDay ==
    /\ today < MaxDay
    /\ today' = today + 1
    /\ UNCHANGED <<user, profile, dbProfile, isCloning, cloneReads, authEvent>>
    /\ UNCHANGED <<audioVars, wavVars, speakerVars, studioVars, pdfVars, localVars, scriptVars>>

\* a click on the "Clone Voice Sample" label followed, when the input is enabled,
\* by the choice of a file: handleVoiceClone up to reader.readAsDataURL
ClickClone(dbOk) ==
    /\ user
    /\ IF canClone
       THEN /\ Len(cloneReads) < MaxReads
            /\ isCloning' = TRUE
            /\ cloneReads' = Append(cloneReads,
                                    [isPro |-> isPro, user |-> user, profile |-> profile])
            /\ authEvent' = [name |-> "handleVoiceClone"]
            /\ UNCHANGED <<profile, dbProfile>>
       ELSE /\ profile' = UpgradeResult(dbOk).profile
            /\ dbProfile' = UpgradeResult(dbOk).db
            /\ authEvent' = [name |-> "upgradeToPro"]
            /\ UNCHANGED <<isCloning, cloneReads>>
    /\ UNCHANGED <<user, today>>
    /\ UNCHANGED <<audioVars, wavVars, speakerVars, studioVars, pdfVars, localVars, scriptVars>>

\* reader.onloadend of the oldest read, with incrementClones of its closure;
\* a failed update calls fetchProfile
CloneLoaded(dbOk, outcome, updOk) ==
    /\ Len(cloneReads) > 0
    /\ LET c == Head(cloneReads)
           counted == IF HasProfile THEN [profile EXCEPT !.clones_used = @ + 1] ELSE NoProfile
       IN  /\ cloneReads' = Tail(cloneReads)
           /\ isCloning' = FALSE
           /\ IF c.isPro \/ ~c.user \/ c.profile.plan = "none"
              THEN UNCHANGED <<profile, dbProfile>>
              ELSE IF dbOk
              THEN /\ profile' = counted
                   /\ dbProfile' = [dbProfile EXCEPT !.clones_used = c.profile.clones_used + 1]
              ELSE IF outcome = "throw"
              THEN /\ profile' = counted
                   /\ UNCHANGED dbProfile
              ELSE /\ profile' = FetchResult(outcome, updOk).profile
                   /\ dbProfile' = FetchResult(outcome, updOk).db
    /\ UNCHANGED <<user, today, authEvent>>
    /\ UNCHANGED <<audioVars, wavVars, speakerVars, studioVars, pdfVars, localVars, scriptVars>>

DbProfiles ==
    [plan : {"free", "pro"}, clones_used : 0..1, daily_generation_count : {Null, 0, 1},
     last_generation_date : {1}]

AuthInitWith(rows) ==
    /\ user = TRUE
    /\ profile = NoProfile
    /\ dbProfile \in rows
    /\ today = 1
    /\ isCloning = FALSE
    /\ cloneReads = <<>>
    /\ authEvent = [name |-> None]

AuthInit == AuthInitWith(DbProfiles)

AuthNext ==
    \/ \E f \in FetchCases : FetchProfile(f.outcome, f.updOk)
    \/ \E f \in FetchCases : SignIn(f.outcome, f.updOk)
    \/ SignOut
    \/ NewDay
    \/ \E d \in BOOLEAN : ClickClone(d)
    \/ \E c \in UpdateCases : CloneLoaded(c.dbOk, c.outcome, c.updOk)

(***************************************************************************)
(* PodcastGenerator: the Generate button, the free-user queue and          *)
(* startGeneration.                                                        *)
(***************************************************************************)
NoScript == [title |-> "none", coverImageUrl |-> "none"]

\* Math.floor(Math.random() * 15) + 5
QueuePositions_NoOffset == 0..14
QueuePositions == 5..19

\* the guards of handleGenerate (lines 120-127)
SpeakersOk == Len(selectedSpeakers) = 2
HasContent_Unchecked == TRUE
HasContent == ~(inputText = <<>> /\ selectedImages = 0 /\ segments = 0)

\* disabled={isProcessing || selectedSpeakers.length !== 2}
GenerateDisabled == isProcessing \/ Len(selectedSpeakers) # 2

\* startGeneration up to its first await: the new component state
StartedGens == Append(gens, [pc |-> "script", isPro |-> isPro, user |-> user, profile |-> profile])

StartGeneration ==
    /\ started < MaxStarts
    /\ started' = started + 1
    /\ isProcessing' = TRUE
    /\ isModalOpen' = TRUE
    /\ audioBlob' = FALSE
    /\ script' = NoScript
    /\ status' = "Generating script and show notes..."
    /\ gens' = StartedGens

\* a click on the Generate button: onClick={canGenerate ? handleGenerate : upgradeToPro};
\* handleGenerate draws the position in its free-user branch only, and the update of
\* upgradeToPro succeeds or fails
ClickGenerate ==
    /\ ~GenerateDisabled
    /\ IF canGenerate
       THEN /\ studioEvent' = [name |-> "handleGenerate"]
            /\ UNCHANGED <<profile, dbProfile>>
            /\ IF ~SpeakersOk \/ ~HasContent
               THEN UNCHANGED <<queuePosition, estimatedWaitTime, isProcessing, isModalOpen,
                                status, script, audioBlob, isPlaying, gens, started>>
               ELSE IF ~isPro
               THEN /\ \E position \in QueuePositions :
                          /\ queuePosition' = position
                          \* Math.ceil((position * 30) / 60), kept in half minutes
                          /\ estimatedWaitTime' = 2 * CeilDiv(position * 30, 60)
                    /\ UNCHANGED <<isProcessing, isModalOpen, status, script, audioBlob,
                                   isPlaying, gens, started>>
               ELSE /\ StartGeneration
                    /\ UNCHANGED <<queuePosition, estimatedWaitTime, isPlaying>>
       ELSE /\ studioEvent' = [name |-> "upgradeToPro"]
            /\ \E dbOk \in BOOLEAN :
                  /\ profile' = UpgradeResult(dbOk).profile
                  /\ dbProfile' = UpgradeResult(dbOk).db
            /\ UNCHANGED <<queuePosition, estimatedWaitTime, isProcessing, isModalOpen,
                           status, script, audioBlob, isPlaying, gens, started>>
    /\ UNCHANGED <<inputText, selectedImages, segments>>
    /\ UNCHANGED <<user, today, isCloning, cloneReads, authEvent>>
    /\ UNCHANGED <<audioVars, wavVars, speakerVars, pdfVars, localVars, scriptVars>>

\* the 2 second timer of the queue effect
QueueTick ==
    /\ queuePosition # Null
    /\ queuePosition > 0
    /\ queuePosition' = IF queuePosition > 1 THEN queuePosition - 1 ELSE 0
    /\ estimatedWaitTime' = IF estimatedWaitTime # Null /\ estimatedWaitTime > 1
                            THEN estimatedWaitTime - 1 ELSE 0
    /\ UNCHANGED <<inputText, selectedImages, segments, isProcessing, isModalOpen, status,
                   script, audioBlob, isPlaying, gens, started, studioEvent>>
    /\ UNCHANGED authVars
    /\ UNCHANGED <<audioVars, wavVars, speakerVars, pdfVars, localVars, scriptVars>>

\* the queue effect at position 0
QueueFinished ==
    /\ queuePosition = 0
    /\ queuePosition' = Null
    /\ estimatedWaitTime' = Null
    /\ StartGeneration
    /\ UNCHANGED <<inputText, selectedImages, segments, isPlaying, studioEvent>>
    /\ UNCHANGED authVars
    /\ UNCHANGED <<audioVars, wavVars, speakerVars, pdfVars, localVars, scriptVars>>

\* "Cancel & Wait Later"
CancelQueue ==
    /\ queuePosition # Null
    /\ queuePosition' = Null
    /\ estimatedWaitTime' = Null
    /\ UNCHANGED <<inputText, selectedImages, segments, isProcessing, isModalOpen, status,
                   script, audioBlob, isPlaying, gens, started, studioEvent>>
    /\ UNCHANGED authVars
    /\ UNCHANGED <<audioVars, wavVars, speakerVars, pdfVars, localVars, scriptVars>>

\* "Skip Queue with Pro"
SkipQueueWithPro(dbOk) ==
    /\ queuePosition # Null
    /\ profile' = UpgradeResult(dbOk).profile
    /\ dbProfile' = UpgradeResult(dbOk).db
    /\ UNCHANGED <<user, today, isCloning, cloneReads, authEvent>>
    /\ UNCHANGED studioVars
    /\ UNCHANGED <<audioVars, wavVars, speakerVars, pdfVars, localVars, scriptVars>>

RemoveAt(q, g) == SubSeq(q, 1, g - 1) \o SubSeq(q, g + 1, Len(q))

\* the catch and finally of startGeneration
GenerationFailed_KeepsModal(g) ==
    /\ status' = "Error: Failed to generate podcast."
    /\ isModalOpen' = isModalOpen
    /\ isProcessing' = FALSE
    /\ gens' = RemoveAt(gens, g)

GenerationFailed(g) ==
    /\ status' = "Error: Failed to generate podcast."
    /\ isModalOpen' = FALSE
    /\ isProcessing' = FALSE
    /\ gens' = RemoveAt(gens, g)

\* generatePodcastScript returns or throws
ScriptDone(g, ok) ==
    /\ g \in 1..Len(gens)
    /\ gens[g].pc = "script"
    /\ IF ok
       THEN /\ status' = "Designing podcast cover art..."
            /\ gens' = [gens EXCEPT ![g].pc = "cover"]
            /\ UNCHANGED <<isModalOpen, isProcessing>>
       ELSE GenerationFailed(g)
    /\ UNCHANGED <<inputText, selectedImages, segments, queuePosition, estimatedWaitTime,
                   script, audioBlob, isPlaying, started, studioEvent>>
    /\ UNCHANGED authVars
    /\ UNCHANGED <<audioVars, wavVars, speakerVars, pdfVars, localVars, scriptVars>>

\* generatePodcastCover returns a data URL, or undefined after a failure
CoverDone(g, cover) ==
    /\ g \in 1..Len(gens)
    /\ gens[g].pc = "cover"
    /\ script' = [title |-> "title", coverImageUrl |-> cover]
    /\ status' = "Generating audio (this may take a moment)..."
    /\ gens' = [gens EXCEPT ![g].pc = "audio"]
    /\ UNCHANGED <<inputText, selectedImages, segments, queuePosition, estimatedWaitTime,
                   isProcessing, isModalOpen, audioBlob, isPlaying, started, studioEvent>>
    /\ UNCHANGED authVars
    /\ UNCHANGED <<audioVars, wavVars, speakerVars, pdfVars, localVars, scriptVars>>

\* onProgress of generatePodcastAudio
AudioProgress(g) ==
    /\ g \in 1..Len(gens)
    /\ gens[g].pc = "audio"
    /\ status' = "Generating audio part ..."
    /\ UNCHANGED <<inputText, selectedImages, segments, queuePosition, estimatedWaitTime,
                   isProcessing, isModalOpen, script, audioBlob, isPlaying, gens, started,
                   studioEvent>>
    /\ UNCHANGED authVars
    /\ UNCHANGED <<audioVars, wavVars, speakerVars, pdfVars, localVars, scriptVars>>

\* incrementGenerations of the closure c; a failed update calls fetchProfile
IncrementGenerations(c, dbOk, outcome, updOk) ==
    LET newCount == OrZero(c.profile.daily_generation_count) + 1
        counted == IF HasProfile
                   THEN [profile EXCEPT !.daily_generation_count = newCount,
                                        !.last_generation_date = today]
                   ELSE NoProfile
    IN  IF ~c.user \/ c.profile.plan = "none"
        THEN UNCHANGED <<profile, dbProfile>>
        ELSE IF dbOk
        THEN /\ profile' = counted
             /\ dbProfile' = [dbProfile EXCEPT !.daily_generation_count = newCount,
                                               !.last_generation_date = today]
        ELSE IF outcome = "throw"
        THEN /\ profile' = counted
             /\ UNCHANGED dbProfile
        ELSE /\ profile' = FetchResult(outcome, updOk).profile
             /\ dbProfile' = FetchResult(outcome, updOk).db

\* generatePodcastAudio resolves or rejects
AudioDone(g, ok, dbOk, outcome, updOk) ==
    /\ g \in 1..Len(gens)
    /\ gens[g].pc = "audio"
    /\ IF ok
       THEN /\ audioBlob' = TRUE
            /\ isPlaying' = TRUE
            /\ status' = "Podcast ready!"
            /\ isProcessing' = FALSE
            /\ gens' = RemoveAt(gens, g)
            /\ UNCHANGED isModalOpen
            /\ IF ~gens[g].isPro
               THEN IncrementGenerations(gens[g], dbOk, outcome, updOk)
               ELSE UNCHANGED <<profile, dbProfile>>
       ELSE /\ GenerationFailed(g)
            /\ UNCHANGED <<audioBlob, isPlaying, profile, dbProfile>>
    /\ UNCHANGED <<inputText, selectedImages, segments, queuePosition, estimatedWaitTime,
                   script, started, studioEvent>>
    /\ UNCHANGED <<user, today, isCloning, cloneReads, authEvent>>
    /\ UNCHANGED <<audioVars, wavVars, speakerVars, pdfVars, localVars, scriptVars>>

\* onClose of the GenerationModal
CloseModal ==
    /\ isModalOpen
    /\ isModalOpen' = FALSE
    /\ UNCHANGED <<inputText, selectedImages, segments, queuePosition, estimatedWaitTime,
                   isProcessing, status, script, audioBlob, isPlaying, gens, started, studioEvent>>
    /\ UNCHANGED authVars
    /\ UNCHANGED <<audioVars, wavVars, speakerVars, pdfVars, localVars, scriptVars>>

\* the content the user has entered before the run
\* a text the user typed into the input box
TypedText == << [kind |-> "typed", n |-> 0] >>

Contents ==
    { [text |-> <<>>, images |-> 0, segments |-> 0],
      [text |-> TypedText, images |-> 0, segments |-> 0],
      [text |-> <<>>, images |-> 1, segments |-> 0],
      [text |-> <<>>, images |-> 0, segments |-> 1] }

StudioInit ==
    /\ \E c \in Contents :
          /\ inputText = c.text
          /\ selectedImages = c.images
          /\ segments = c.segments
    /\ queuePosition = Null
    /\ estimatedWaitTime = Null
    /\ isProcessing = FALSE
    /\ isModalOpen = FALSE
    /\ status = ""
    /\ script = NoScript
    /\ audioBlob = FALSE
    /\ isPlaying = FALSE
    /\ gens = <<>>
    /\ started = 0
    /\ studioEvent = [name |-> None]

StudioNext ==
    \/ ClickGenerate
    \/ QueueTick
    \/ QueueFinished
    \/ CancelQueue
    \/ \E d \in BOOLEAN : SkipQueueWithPro(d)
    \/ \E g \in 1..MaxStarts, ok \in BOOLEAN : ScriptDone(g, ok)
    \/ \E g \in 1..MaxStarts, cover \in {"none", "data:image/png"} : CoverDone(g, cover)
    \/ \E g \in 1..MaxStarts : AudioProgress(g)
    \/ \E g \in 1..MaxStarts : AudioDone(g, FALSE, TRUE, "ok", TRUE)
    \/ \E g \in 1..MaxStarts, c \in UpdateCases : AudioDone(g, TRUE, c.dbOk, c.outcome, c.updOk)
    \/ CloseModal
    \/ \E f \in FetchCases : FetchProfile(f.outcome, f.updOk)

(***************************************************************************)
(* POST /api/extract-pdf (server.ts) and handlePdfUpload (PodcastGenerator).*)
(***************************************************************************)
\* upload.array("pdfs", 10): multer refuses a request with more files
MaxCount == 10

\* if (files.length + uploadedFiles.length > 40)
MaxTotalFiles == 40

\* the files of an upload: file i is named i and either parses or makes pdf() throw
PdfUploads ==
    UNION { { [i \in 1..n |-> [originalname |-> i, parses |-> i \notin F]] :
                F \in { G \in SUBSET (1..n) : Cardinality(G) <= 2 } } :
            n \in 0..(MaxCount + MaxExtra) }

\* data.text of pdf(file.buffer)
PdfText(file) == [kind |-> "pdf", n |-> file.originalname]

\* results.push({ name: file.originalname, text: data.text })
PushResult(rs, file) == Append(rs, [name |-> file.originalname, text |-> PdfText(file)])

NoResponse == [status |-> 0, results |-> <<>>, error |-> ""]

\* the answer to a request that multer or the first guard of the route (line 122) ends
EarlyAnswer(files) ==
    IF Len(files) > MaxCount
    THEN [status |-> 500, results |-> <<>>, error |-> "MulterError: Unexpected field"]
    ELSE IF Len(files) = 0
    THEN [status |-> 400, results |-> <<>>, error |-> "No files uploaded"]
    ELSE NoResponse

\* the separator '\n\n' and the line `--- Content from ${r.name} ---\n`
Sep == [kind |-> "sep", n |-> 0]
ContentHeader(name) == [kind |-> "header", n |-> name]

\* data.results.map(r => `--- Content from ${r.name} ---\n${r.text}`).join('\n\n')
RECURSIVE CombinedText(_)
CombinedText(rs) ==
    IF rs = <<>> THEN <<>>
    ELSE IF Len(rs) = 1 THEN << ContentHeader(rs[1].name), rs[1].text >>
    ELSE << ContentHeader(rs[1].name), rs[1].text, Sep >> \o CombinedText(Tail(rs))

\* the catch and finally blocks of handlePdfUpload (lines 98-104)
UploadFailed_NoFinally ==
    /\ pdfAlert' = "Server-side PDF parsing is unavailable in this demo environment."
    /\ status' = ""
    /\ uploadPc' = "done"
    /\ UNCHANGED <<inputText, uploadedFiles, isProcessing>>

UploadFailed ==
    /\ pdfAlert' = "Server-side PDF parsing is unavailable in this demo environment."
    /\ status' = ""
    /\ isProcessing' = FALSE
    /\ uploadPc' = "done"
    /\ UNCHANGED <<inputText, uploadedFiles>>

\* a change of the PDF file input: handlePdfUpload up to its await
HandlePdfUpload(files) ==
    /\ uploadPc = "idle"
    /\ serverPc = "idle"
    /\ IF Len(files) + Len(uploadedFiles) > MaxTotalFiles
       THEN /\ pdfAlert' = "Maximum 40 files allowed in total."
            /\ uploadPc' = "done"
            /\ UNCHANGED <<isProcessing, status, pdfRequest, serverPc>>
       ELSE IF Len(files) > 0
       THEN /\ isProcessing' = TRUE
            /\ status' = "Extracting text from PDF(s)..."
            /\ pdfRequest' = files
            /\ serverPc' = "sent"
            /\ uploadPc' = "awaiting"
            /\ UNCHANGED pdfAlert
       ELSE /\ uploadPc' = "done"
            /\ UNCHANGED <<isProcessing, status, pdfRequest, serverPc, pdfAlert>>
    /\ UNCHANGED <<inputText, uploadedFiles, fileIndex, extractResults, pdfResponse>>
    /\ UNCHANGED <<selectedImages, segments, queuePosition, estimatedWaitTime, isModalOpen,
                   script, audioBlob, isPlaying, gens, started, studioEvent>>
    /\ UNCHANGED <<audioVars, wavVars, speakerVars, authVars, localVars, scriptVars>>

\* a request to the route that does not come from handlePdfUpload
DirectRequest(files) ==
    /\ uploadPc = "idle"
    /\ serverPc = "idle"
    /\ pdfRequest' = files
    /\ serverPc' = "sent"
    /\ UNCHANGED <<uploadedFiles, uploadPc, pdfAlert, fileIndex, extractResults, pdfResponse>>
    /\ UNCHANGED <<audioVars, wavVars, speakerVars, authVars, studioVars, localVars, scriptVars>>

\* app.post("/api/extract-pdf"): the request arrives, up to the first await
ServeExtractPdf ==
    /\ serverPc = "sent"
    /\ IF EarlyAnswer(pdfRequest) # NoResponse
       THEN /\ pdfResponse' = EarlyAnswer(pdfRequest)
            /\ serverPc' = "answered"
            /\ UNCHANGED <<fileIndex, extractResults>>
       ELSE /\ extractResults' = <<>>
            /\ fileIndex' = 1
            /\ serverPc' = "parsing"
            /\ UNCHANGED pdfResponse
    /\ UNCHANGED <<uploadedFiles, uploadPc, pdfAlert, pdfRequest>>
    /\ UNCHANGED <<audioVars, wavVars, speakerVars, authVars, studioVars, localVars, scriptVars>>

\* await pdf(file.buffer) settles for the file of the loop, up to the next await or
\* the answer
PdfParsed ==
    /\ serverPc = "parsing"
    /\ LET file == pdfRequest[fileIndex]
       IN  IF file.parses
           THEN /\ extractResults' = PushResult(extractResults, file)
                /\ IF fileIndex = Len(pdfRequest)
                   THEN /\ pdfResponse' = [status |-> 200, results |-> extractResults',
                                           error |-> ""]
                        /\ serverPc' = "answered"
                        /\ UNCHANGED fileIndex
                   ELSE /\ fileIndex' = fileIndex + 1
                        /\ UNCHANGED <<pdfResponse, serverPc>>
           ELSE /\ pdfResponse' = [status |-> 500, results |-> <<>>,
                                   error |-> "Failed to extract PDF text"]
                /\ serverPc' = "answered"
                /\ UNCHANGED <<fileIndex, extractResults>>
    /\ UNCHANGED <<uploadedFiles, uploadPc, pdfAlert, pdfRequest>>
    /\ UNCHANGED <<audioVars, wavVars, speakerVars, authVars, studioVars, localVars, scriptVars>>

\* the fetch of handlePdfUpload is rejected, or a static host answers it (not ok, or
\* with a body that is not JSON)
FetchFailures == {"rejected", "not ok", "not json"}

FetchFailed(failure) ==
    /\ uploadPc = "awaiting"
    /\ UploadFailed
    /\ UNCHANGED <<pdfRequest, serverPc, fileIndex, extractResults, pdfResponse>>
    /\ UNCHANGED <<selectedImages, segments, queuePosition, estimatedWaitTime, isModalOpen,
                   script, audioBlob, isPlaying, gens, started, studioEvent>>
    /\ UNCHANGED <<audioVars, wavVars, speakerVars, authVars, localVars, scriptVars>>

\* the answer of the route reaches handlePdfUpload (lines 84-104)
PdfResponseHandled ==
    /\ uploadPc = "awaiting"
    /\ serverPc = "answered"
    /\ IF pdfResponse.status # 200
       THEN UploadFailed
       ELSE LET rs == pdfResponse.results
            IN  /\ inputText' = inputText \o (IF inputText # <<>> THEN <<Sep>> ELSE <<>>)
                                          \o CombinedText(rs)
                /\ uploadedFiles' = uploadedFiles \o
                       [i \in 1..Len(rs) |-> [name |-> rs[i].name, type |-> "pdf"]]
                /\ status' = "PDFs extracted successfully."
                /\ isProcessing' = FALSE
                /\ uploadPc' = "done"
                /\ UNCHANGED pdfAlert
    /\ UNCHANGED <<pdfRequest, serverPc, fileIndex, extractResults, pdfResponse>>
    /\ UNCHANGED <<selectedImages, segments, queuePosition, estimatedWaitTime, isModalOpen,
                   script, audioBlob, isPlaying, gens, started, studioEvent>>
    /\ UNCHANGED <<audioVars, wavVars, speakerVars, authVars, localVars, scriptVars>>

\* the files uploaded before: none, or as many images as leave room for MaxCount files
ImagesBefore == {0, MaxTotalFiles - MaxCount}

PdfIdle ==
    /\ uploadedFiles = <<>> /\ uploadPc = "idle" /\ pdfAlert = "" /\ pdfRequest = <<>>
    /\ serverPc = "idle" /\ fileIndex = 0 /\ extractResults = <<>> /\ pdfResponse = NoResponse

PdfInit ==
    /\ \E n \in ImagesBefore :
          /\ uploadedFiles = [i \in 1..n |-> [name |-> 100 + i, type |-> "image"]]
          /\ selectedImages = n
    /\ inputText \in {<<>>, TypedText}
    /\ uploadPc = "idle" /\ pdfAlert = "" /\ pdfRequest = <<>>
    /\ serverPc = "idle" /\ fileIndex = 0 /\ extractResults = <<>> /\ pdfResponse = NoResponse
    /\ segments = 0 /\ queuePosition = Null
    /\ estimatedWaitTime = Null /\ isProcessing = FALSE /\ isModalOpen = FALSE /\ status = ""
    /\ script = NoScript /\ audioBlob = FALSE /\ isPlaying = FALSE /\ gens = <<>> /\ started = 0
    /\ studioEvent = [name |-> None]

PdfNext ==
    \/ \E files \in PdfUploads : HandlePdfUpload(files)
    \/ \E files \in PdfUploads : DirectRequest(files)
    \/ ServeExtractPdf
    \/ PdfParsed
    \/ \E f \in FetchFailures : FetchFailed(f)
    \/ PdfResponseHandled

(***************************************************************************)
(* SpeakerManager when the backend API is unavailable: localStorage.       *)
(***************************************************************************)
\* DEFAULT_SPEAKERS of data/defaultSpeakers
DEFAULT_SPEAKERS == SeedAll(<<>>, 0, 1)

\* Date.now() when the page is first loaded
Epoch == 1000

\* JSON.stringify of an array of speakers: the text as a sequence of tokens
RECURSIVE JSONStringifyItems(_)
JSONStringifyItems(arr) ==
    IF arr = <<>> THEN <<>>
    ELSE << arr[1].id, arr[1].name, arr[1].isPrebuilt >> \o JSONStringifyItems(Tail(arr))

JSONStringify(arr) == <<"[">> \o JSONStringifyItems(arr) \o <<"]">>

\* JSON.parse of such a text
JSONParse(text) ==
    [i \in 1..((Len(text) - 2) \div 3) |->
        [id |-> text[3 * i - 1], name |-> text[3 * i], isPrebuilt |-> text[3 * i + 1]]]

\* localStorage.getItem('custom_speakers') || '[]'
GetItemOrEmpty == IF localStorage = <<>> THEN <<"[", "]">> ELSE localStorage

\* [...currentCustom, customSpeaker]
WithCustom_Overwrite(currentCustom, customSpeaker) == << customSpeaker >>
WithCustom(currentCustom, customSpeaker) == Append(currentCustom, customSpeaker)

\* the names typed into the form
SpeakerNames == {"Guest", "Chef Remy"}

\* the form is submitted: handleAddSpeaker up to its await
SubmitAddSpeaker(name) ==
    /\ Len(JSONParse(GetItemOrEmpty)) + Len(pendingAdds) < MaxAdds
    /\ pendingAdds' = Append(pendingAdds, name)
    /\ UNCHANGED <<localStorage, clock, pendingFetches, pendingDeletes, deleteDone, deleteClicks>>
    /\ UNCHANGED <<audioVars, wavVars, speakerVars, authVars, studioVars, pdfVars, scriptVars>>

\* the POST of a handleAddSpeaker call fails: its catch block (false is written 0)
AddSpeakerFallback(i) ==
    /\ i \in 1..Len(pendingAdds)
    /\ LET customSpeaker == [id |-> clock, name |-> pendingAdds[i], isPrebuilt |-> 0]
           currentCustom == JSONParse(GetItemOrEmpty)
       IN  localStorage' = JSONStringify(WithCustom(currentCustom, customSpeaker))
    /\ pendingFetches' = pendingFetches + 1
    /\ pendingAdds' = RemoveAt(pendingAdds, i)
    /\ UNCHANGED <<clock, pendingDeletes, deleteDone, deleteClicks>>
    /\ UNCHANGED <<audioVars, wavVars, speakerVars, authVars, studioVars, pdfVars, scriptVars>>

\* the GET of a fetchSpeakers call fails: its catch block
FetchSpeakersFallback ==
    /\ pendingFetches > 0
    /\ speakers' = DEFAULT_SPEAKERS \o JSONParse(GetItemOrEmpty)
    /\ pendingFetches' = pendingFetches - 1
    /\ UNCHANGED <<localStorage, clock, pendingAdds, pendingDeletes, deleteDone, deleteClicks>>
    /\ UNCHANGED <<table, sqliteSequence, response, selectedSpeakers, speakerAlert, server>>
    /\ UNCHANGED <<audioVars, wavVars, authVars, studioVars, pdfVars, scriptVars>>

\* time passes
ClockTick ==
    /\ clock < Epoch + MaxTicks
    /\ clock' = clock + 1
    /\ UNCHANGED <<localStorage, pendingAdds, pendingFetches, pendingDeletes, deleteDone,
                   deleteClicks>>
    /\ UNCHANGED <<audioVars, wavVars, speakerVars, authVars, studioVars, pdfVars, scriptVars>>

\* the page is loaded again: the component state is new, the effect calls fetchSpeakers
ReloadPage ==
    /\ speakers' = <<>>
    /\ selectedSpeakers' = <<>>
    /\ pendingAdds' = <<>>
    /\ pendingFetches' = 1
    /\ pendingDeletes' = <<>>
    /\ UNCHANGED <<localStorage, clock, deleteDone, deleteClicks>>
    /\ UNCHANGED <<table, sqliteSequence, response, speakerAlert, server>>
    /\ UNCHANGED <<audioVars, wavVars, authVars, studioVars, pdfVars, scriptVars>>

\* a click on the delete button of a custom speaker on display: handleDeleteSpeaker
\* up to its await
ClickDeleteSpeaker(id) ==
    /\ deleteClicks < MaxDeletes
    /\ \E r \in Rows(speakers) : r.id = id /\ r.isPrebuilt = 0
    /\ pendingDeletes' = Append(pendingDeletes, [id |-> id, pc |-> "delete"])
    /\ deleteClicks' = deleteClicks + 1
    /\ UNCHANGED <<localStorage, clock, pendingAdds, pendingFetches, deleteDone>>
    /\ UNCHANGED <<audioVars, wavVars, speakerVars, authVars, studioVars, pdfVars, scriptVars>>

\* without a backend the DELETE request is rejected (the call throws at its await and
\* fetchSpeakers is not reached) or answered by the static host (the answer is not
\* looked at and fetchSpeakers is called)
DeleteOutcomes == {"rejected", "answered"}

DeleteFetchSettled(i, outcome) ==
    /\ i \in 1..Len(pendingDeletes)
    /\ pendingDeletes[i].pc = "delete"
    /\ pendingDeletes' = IF outcome = "rejected" THEN RemoveAt(pendingDeletes, i)
                         ELSE [pendingDeletes EXCEPT ![i].pc = "refresh"]
    /\ UNCHANGED <<localStorage, clock, pendingAdds, pendingFetches, deleteDone, deleteClicks>>
    /\ UNCHANGED <<audioVars, wavVars, speakerVars, authVars, studioVars, pdfVars, scriptVars>>

\* the GET of the fetchSpeakers call of a handleDeleteSpeaker fails: its catch block
DeleteRefreshFallback(i) ==
    /\ i \in 1..Len(pendingDeletes)
    /\ pendingDeletes[i].pc = "refresh"
    /\ speakers' = DEFAULT_SPEAKERS \o JSONParse(GetItemOrEmpty)
    /\ pendingDeletes' = RemoveAt(pendingDeletes, i)
    /\ deleteDone' = deleteDone \cup { pendingDeletes[i].id }
    /\ UNCHANGED <<localStorage, clock, pendingAdds, pendingFetches, deleteClicks>>
    /\ UNCHANGED <<table, sqliteSequence, response, selectedSpeakers, speakerAlert, server>>
    /\ UNCHANGED <<audioVars, wavVars, authVars, studioVars, pdfVars, scriptVars>>

LocalIdle ==
    /\ localStorage = <<>> /\ clock = Epoch /\ pendingAdds = <<>> /\ pendingFetches = 0
    /\ pendingDeletes = <<>> /\ deleteDone = {} /\ deleteClicks = 0

LocalInit ==
    /\ localStorage = <<>> /\ clock = Epoch /\ pendingAdds = <<>> /\ pendingFetches = 1
    /\ pendingDeletes = <<>> /\ deleteDone = {} /\ deleteClicks = 0

LocalNext ==
    \/ \E name \in SpeakerNames : SubmitAddSpeaker(name)
    \/ \E i \in 1..MaxAdds : AddSpeakerFallback(i)
    \/ FetchSpeakersFallback
    \/ ClockTick
    \/ ReloadPage
    \/ \E id \in Epoch..(Epoch + MaxTicks) : ClickDeleteSpeaker(id)
    \/ \E i \in 1..MaxDeletes, o \in DeleteOutcomes : DeleteFetchSettled(i, o)
    \/ \E i \in 1..MaxDeletes : DeleteRefreshFallback(i)

(***************************************************************************)
(* generatePodcastScript: the prompt and the outcome of the request.       *)
(***************************************************************************)
\* the duration strings: those of the claim and of the duration buttons, and others
Minutes(digits) == digits \o <<" ", "m", "i", "n", "u", "t", "e", "s">>
Hours(digit) == <<digit, " ", "h", "o", "u", "r", "s">>
OneHour == <<"1", " ", "h", "o", "u", "r">>

Durations ==
    { Minutes(<<"3">>), Minutes(<<"5">>), Minutes(<<"1", "0">>), Minutes(<<"1", "5">>),
      Minutes(<<"3", "0">>), Minutes(<<"4", "5">>), OneHour, Hours("2"), Hours("3"),
      Minutes(<<"2", "0">>), Hours("4"), <<>> }

\* String.prototype.includes
Includes(str, sub) ==
    \E i \in 0..(Len(str) - Len(sub)) : SubSeq(str, i + 1, i + Len(sub)) = sub

\* lines 29-38
TargetWordCount(d) ==
    IF Includes(d, <<"3">>) THEN 450
    ELSE IF Includes(d, <<"5">>) THEN 750
    ELSE IF Includes(d, <<"1", "0">>) THEN 1500
    ELSE IF Includes(d, <<"1", "5">>) THEN 2250
    ELSE IF Includes(d, <<"3", "0">>) THEN 4500
    ELSE IF Includes(d, <<"4", "5">>) THEN 6750
    ELSE IF Includes(d, <<"1", " ", "h", "o", "u", "r">>) THEN 9000
    ELSE IF Includes(d, <<"2", " ", "h", "o", "u", "r">>) THEN 18000
    ELSE IF Includes(d, <<"3", " ", "h", "o", "u", "r">>) THEN 27000
    ELSE 750

\* the call: the prompt is built and the request sent
GeneratePodcastScript ==
    /\ scriptPc = "idle"
    /\ targetWordCount' = TargetWordCount(duration)
    /\ promptNotes' = IF notes = "" THEN "None provided. Use your best judgment to make it engaging."
                      ELSE notes
    /\ scriptPc' = "awaiting"
    /\ UNCHANGED <<duration, notes, scriptError>>
    /\ UNCHANGED <<audioVars, wavVars, speakerVars, authVars, studioVars, pdfVars, localVars>>

\* what generateContent does: a JSON text, no text, or an error with some message
ScriptOutcomes == {"json", "empty", "xhr error", "500", "quota"}

\* lines 131-141
ScriptSettled(outcome) ==
    /\ scriptPc = "awaiting"
    /\ scriptPc' = IF outcome = "json" THEN "resolved" ELSE "rejected"
    /\ scriptError' = CASE outcome = "json" -> ""
                        [] outcome = "empty" -> "Model returned an empty response."
                        [] outcome \in {"xhr error", "500"} -> "The AI service is currently overloaded."
                        [] OTHER -> outcome
    /\ UNCHANGED <<duration, notes, targetWordCount, promptNotes>>
    /\ UNCHANGED <<audioVars, wavVars, speakerVars, authVars, studioVars, pdfVars, localVars>>

ScriptIdle ==
    /\ duration = Minutes(<<"3">>) /\ notes = "" /\ scriptPc = "idle" /\ targetWordCount = 0
    /\ promptNotes = "" /\ scriptError = ""

ScriptInit ==
    /\ duration \in Durations /\ notes \in {"", "Keep it light."}
    /\ scriptPc = "idle" /\ targetWordCount = 0 /\ promptNotes = "" /\ scriptError = ""

ScriptNext ==
    \/ GeneratePodcastScript
    \/ \E o \in ScriptOutcomes : ScriptSettled(o)

(***************************************************************************)
(* The specifications: one per part of the program, the other parts idle.  *)
(***************************************************************************)
AudioIdle ==
    /\ scriptLines = <<>> /\ chunkPrompts = <<>> /\ totalChunks = 0 /\ mainState = "idle"
    /\ batchStart = 0 /\ task = <<>> /\ results = <<>> /\ completedCount = 0
    /\ progressCalls = <<>> /\ requestsSent = <<>> /\ received = <<>> /\ exhausted = <<>>
    /\ returned = None /\ rejection = None

WavIdle == pcmData = <<>> /\ sampleRate = 24000 /\ wavBlob = <<>>

AuthIdle ==
    /\ user = TRUE /\ profile = NoProfile /\ today = 1 /\ isCloning = FALSE
    /\ cloneReads = <<>> /\ authEvent = [name |-> None]
    /\ dbProfile = [plan |-> "free", clones_used |-> 0, daily_generation_count |-> 0,
                    last_generation_date |-> 1]

StudioIdle ==
    /\ inputText = <<>> /\ selectedImages = 0 /\ segments = 0 /\ queuePosition = Null
    /\ estimatedWaitTime = Null /\ isProcessing = FALSE /\ isModalOpen = FALSE /\ status = ""
    /\ script = NoScript /\ audioBlob = FALSE /\ isPlaying = FALSE /\ gens = <<>> /\ started = 0
    /\ studioEvent = [name |-> None]

\* generatePodcastAudio
InitAudio == AudioInit /\ WavIdle /\ SpeakerInit /\ AuthIdle /\ StudioIdle /\ PdfIdle /\ LocalIdle
    /\ ScriptIdle

SpecAudio == InitAudio /\ [][AudioNext]_vars

\* the awaited generateContent of chunk k returns or fails
TTSReturns(k) ==
    \/ \E f \in FailKinds : TTSFail(k, f)
    \/ \E a \in AudioResponses : TTSSuccess(k, a)

\* a step of some callback: its request returns or fails, or its backoff timer
\* (setTimeout of 1 to 2 seconds) fires
CallbackStep ==
    \E k \in 0..(CeilDiv(MaxLines, CHUNK_SIZE) - 1) : TTSReturns(k) \/ BackoffElapsed(k)

\* while a request is in flight or a timer is set, one of them completes in the end
AudioFairness == WF_vars(CallbackStep)

SpecAudioFair == InitAudio /\ [][AudioNext]_vars /\ AudioFairness

\* createWavBlob
InitWav == AudioIdle /\ WavInit /\ SpeakerInit /\ AuthIdle /\ StudioIdle /\ PdfIdle /\ LocalIdle
    /\ ScriptIdle

SpecWav == InitWav /\ [][WavNext]_vars

\* the speaker routes of the server and the SpeakerManager
InitSpeakers == AudioIdle /\ WavIdle /\ SpeakerInit /\ AuthIdle /\ StudioIdle /\ PdfIdle /\ LocalIdle
    /\ ScriptIdle

SpecSpeakers == InitSpeakers /\ [][SpeakerNext]_vars

\* the start-up seeding of the server, across the upgrade from the earlier server
InitServer == AudioIdle /\ WavIdle /\ ServerInit /\ AuthIdle /\ StudioIdle /\ PdfIdle /\ LocalIdle
    /\ ScriptIdle

SpecServer == InitServer /\ [][ServerNext]_vars

\* the AuthProvider and voice cloning
InitAuth == AudioIdle /\ WavIdle /\ SpeakerInit /\ AuthInit /\ StudioIdle /\ PdfIdle /\ LocalIdle
    /\ ScriptIdle

SpecAuth == InitAuth /\ [][AuthNext]_vars

\* the speakers the App hands to the PodcastGenerator
StudioSelections ==
    { SubSeq(SeedAll(<<>>, 0, 1), 1, n) : n \in 0..2 }

\* the PodcastGenerator
InitStudio ==
    /\ AudioIdle /\ WavIdle /\ AuthInitWith({ r \in DbProfiles : r.clones_used = 0 }) /\ StudioInit
    /\ table = SeedAll(<<>>, 0, 1) /\ sqliteSequence = Len(seedSpeakers)
    /\ response = [op |-> None, id |-> 0, success |-> TRUE]
    /\ speakers = table /\ speakerAlert = "" /\ server = "current"
    /\ selectedSpeakers \in StudioSelections
    /\ PdfIdle /\ LocalIdle /\ ScriptIdle

\* generatePodcastScript
InitScript ==
    AudioIdle /\ WavIdle /\ SpeakerInit /\ AuthIdle /\ StudioIdle /\ PdfIdle /\ LocalIdle
    /\ ScriptInit

SpecScript == InitScript /\ [][ScriptNext]_vars

\* the SpeakerManager on a static host
InitLocal == AudioIdle /\ WavIdle /\ ServerInit /\ AuthIdle /\ StudioIdle /\ PdfIdle /\ LocalInit
    /\ ScriptIdle

SpecLocal == InitLocal /\ [][LocalNext]_vars

\* the PDF extraction route and handlePdfUpload
InitPdf == AudioIdle /\ WavIdle /\ SpeakerInit /\ AuthIdle /\ PdfInit /\ LocalIdle
    /\ ScriptIdle

SpecPdf == InitPdf /\ [][PdfNext]_vars

SpecStudio == InitStudio /\ [][StudioNext]_vars

(***************************************************************************)
(* Properties of generatePodcastAudio (checked under SpecAudio).           *)
(***************************************************************************)
\* the PCM of the successful responses of chunks k, k+1, ..., totalChunks-1, in that order
RECURSIVE ReceivedPcmFrom(_)
ReceivedPcmFrom(k) ==
    IF k >= totalChunks THEN <<>> ELSE atob(received[k]) \o ReceivedPcmFrom(k + 1)

\* C1: when the call resolves, the returned audio decodes to the PCM of chunk 0,
\* chunk 1, ..., chunk totalChunks-1 in that order, every chunk exactly once,
\* whatever the order in which the requests of a batch completed.
C1_InOrderReassembly ==
    mainState = "resolved" =>
        /\ atob(returned) = ReceivedPcmFrom(0)
        /\ Len(results) = totalChunks
        /\ \A k \in 0..(totalChunks - 1) :
              Cardinality({ j \in 1..Len(results) : results[j].index = k }) = 1

\* a call that resolved although a later chunk completed before an earlier one
\* and the two carry different audio
C1_Witness ==
    /\ mainState = "resolved"
    /\ totalChunks >= 3
    /\ results[1].index > results[2].index
    /\ results[1].data # results[2].data

\* C2: a script of n lines yields ceil(n/10) chunks, chunk k holds lines
\* 10k .. min(10k+9, n-1) in script order, every chunk but the last has 10 lines,
\* and every line is in exactly one chunk.
C2_Chunking ==
    mainState # "idle" =>
        LET n == Len(scriptLines)
            c == Len(chunkPrompts)
        IN  /\ c * 10 >= n
            /\ (c - 1) * 10 < n
            /\ totalChunks = c
            /\ \A k \in 0..(c - 1) :
                  LET first == 10 * k
                      last == Min(10 * k + 9, n - 1)
                  IN  /\ chunkPrompts[k + 1].index = k
                      /\ Len(chunkPrompts[k + 1].lines) = last - first + 1
                      /\ \A j \in 1..(last - first + 1) :
                            chunkPrompts[k + 1].lines[j] = scriptLines[first + j]
                      /\ (k < c - 1 => Len(chunkPrompts[k + 1].lines) = 10)
            /\ \A l \in 1..n :
                  Cardinality({ kj \in (1..c) \X (1..10) :
                                   /\ kj[2] <= Len(chunkPrompts[kj[1]].lines)
                                   /\ chunkPrompts[kj[1]].lines[kj[2]] = scriptLines[l] }) = 1

\* a script of 25 lines has been chunked: three chunks, the last one partial
C2_Witness ==
    /\ mainState # "idle"
    /\ Len(scriptLines) = 25
    /\ Len(chunkPrompts) = 3

\* C3: at every moment at most 3 TTS requests are in flight.
C3_BoundedParallel == Cardinality(InFlight) <= 3

\* three requests in flight, one of them a retry
C3_Witness ==
    /\ Cardinality(InFlight) = 3
    /\ \E k \in InFlight : task[k].retries < InitialRetries

\* C4 as stated: at most 3 requests per chunk, a chunk fails only after 3 failed
\* attempts, and after a chunk's third failed attempt the call is rejected with the
\* error of that chunk.
C4_RejectsWithThatChunksError ==
    /\ \A k \in DOMAIN task : requestsSent[k] <= 3
    /\ \A k \in DOMAIN task :
          task[k].pc = "failed" =>
              /\ requestsSent[k] = 3
              /\ mainState = "rejected"
              /\ rejection.chunk = k

\* C4 amended: at most 3 requests per chunk, a failed attempt is retried while
\* attempts are left, and once a chunk's third attempt has failed the call is
\* rejected, with the error of the first chunk whose third attempt failed, and
\* never resolves with audio.
C4_RetryThenReject ==
    /\ \A k \in DOMAIN task : requestsSent[k] <= 3
    /\ \A k \in DOMAIN task :
          /\ task[k].pc = "inflight" => requestsSent[k] = 3 - task[k].retries + 1
          /\ task[k].pc = "backoff" => task[k].retries \in 1..2 /\ requestsSent[k] = 3 - task[k].retries
          /\ task[k].pc = "failed" =>
                /\ requestsSent[k] = 3
                /\ mainState = "rejected"
                /\ rejection.chunk = exhausted[1]
    /\ mainState = "resolved" => \A k \in DOMAIN task : task[k].pc = "done"

\* two chunks of a batch have used up their attempts
C4_Witness ==
    /\ mainState = "rejected"
    /\ Len(exhausted) = 2
    /\ exhausted[1] # exhausted[2]

\* C16: a request for a chunk of a batch has been issued only when every chunk of
\* the batches before it (chunks below 3 * (c div 3)) has succeeded, and no request
\* of a batch after that of a chunk that ran out of attempts has been issued.
C16_SequentialBatches ==
    /\ \A c \in DOMAIN requestsSent :
          requestsSent[c] > 0 =>
              \A b \in DOMAIN task : b < 3 * (c \div 3) => task[b].pc = "done"
    /\ \A j \in 1..Len(exhausted) :
          \A c \in DOMAIN requestsSent :
              c \div 3 > exhausted[j] \div 3 => requestsSent[c] = 0

\* two chunks of the first batch succeeded and the third ran out of attempts: no
\* request was issued for the chunk of the second batch
C16_Witness ==
    /\ totalChunks = 4
    /\ task[0].pc = "done" /\ task[1].pc = "done" /\ task[2].pc = "failed"
    /\ exhausted = <<2>>
    /\ requestsSent[2] = 3
    /\ requestsSent[3] = 0

\* C17: onProgress has been called once per chunk that completed, the j-th call with
\* (j, total) where total is the number of lines divided by 10 and rounded up, never
\* more than total times, and when the call resolved the last one was (total, total).
C17_ProgressCalls ==
    LET total == (Len(scriptLines) + 9) \div 10
    IN  /\ Len(progressCalls) = Cardinality({ k \in DOMAIN task : task[k].pc = "done" })
        /\ \A j \in 1..Len(progressCalls) : progressCalls[j] = <<j, total>>
        /\ Len(progressCalls) <= total
        /\ mainState = "resolved" =>
               /\ Len(progressCalls) = total
               /\ progressCalls[Len(progressCalls)] = <<total, total>>

\* a script of 4 chunks resolved after a retry: the calls were (1,4), (2,4), (3,4), (4,4)
C17_Witness ==
    /\ mainState = "resolved"
    /\ totalChunks = 4
    /\ progressCalls = << <<1, 4>>, <<2, 4>>, <<3, 4>>, <<4, 4>> >>
    /\ requestsSent[1] = 2

(***************************************************************************)
(* Properties of createWavBlob (checked under SpecWav).                    *)
(***************************************************************************)
Uint32At(bytes, off) ==
    bytes[off + 1] + 256 * bytes[off + 2] + 65536 * bytes[off + 3] + 16777216 * bytes[off + 4]

Uint16At(bytes, off) == bytes[off + 1] + 256 * bytes[off + 2]

\* C5: the output is a 44 byte header followed by the PCM unchanged; RIFF size
\* 36 + L, data size L, 16-bit mono PCM, byte rate R * 2 = R * block align.
C5_WavLayout ==
    wavBlob # <<>> =>
        LET L == Len(pcmData)
            R == sampleRate
        IN  /\ Len(wavBlob) = 44 + L
            /\ SubSeq(wavBlob, 1, 4) = TagRIFF
            /\ Uint32At(wavBlob, 4) = 36 + L
            /\ Uint16At(wavBlob, 20) = 1
            /\ Uint16At(wavBlob, 22) = 1
            /\ Uint32At(wavBlob, 24) = R
            /\ Uint32At(wavBlob, 28) = R * 2
            /\ Uint32At(wavBlob, 28) = Uint32At(wavBlob, 24) * Uint16At(wavBlob, 32)
            /\ Uint16At(wavBlob, 34) = 16
            /\ Uint32At(wavBlob, 40) = L
            /\ SubSeq(wavBlob, 45, 44 + L) = pcmData

\* a buffer of at least three bytes wrapped at the sample rate of the call sites
C5_Witness ==
    /\ wavBlob # <<>>
    /\ Len(pcmData) >= 3
    /\ sampleRate = 24000

(***************************************************************************)
(* Properties of the Generate button (checked under SpecStudio).           *)
(***************************************************************************)
\* C6: a click on Generate reaches handleGenerate for a pro user and for a free
\* user whose daily_generation_count is below 1; with a count of 1 or more, or
\* with no profile loaded, it reaches upgradeToPro and starts nothing.
C6_GenerateGate ==
    [][ClickGenerate =>
              /\ profile.plan = "pro" => studioEvent'.name = "handleGenerate"
              /\ (profile.plan = "free" /\ profile.daily_generation_count < 1)
                    => studioEvent'.name = "handleGenerate"
              /\ (profile.plan = "free" /\ profile.daily_generation_count >= 1)
                    => /\ studioEvent'.name = "upgradeToPro"
                       /\ queuePosition' = queuePosition
                       /\ started' = started
              /\ profile.plan = "none"
                    => /\ studioEvent'.name = "upgradeToPro"
                       /\ queuePosition' = queuePosition
                       /\ started' = started]_vars

\* a free user at the daily limit has clicked Generate and was sent to upgradeToPro
\* (the upgrade did not go through)
C6_Witness ==
    /\ studioEvent.name = "upgradeToPro"
    /\ profile.plan = "free"
    /\ profile.daily_generation_count >= 1
    /\ Len(selectedSpeakers) = 2

\* C9: handleGenerate changes no state of the PodcastGenerator, and starts
\* neither the queue nor a generation, unless exactly 2 speakers are selected and
\* there is a text, an image or a segment.
C9_GeneratePrecondition ==
    [][(/\ ClickGenerate
        /\ studioEvent'.name = "handleGenerate"
        /\ ~(/\ Len(selectedSpeakers) = 2
             /\ (inputText # <<>> \/ selectedImages >= 1 \/ segments >= 1)))
          => /\ queuePosition' = queuePosition
             /\ started' = started
             /\ UNCHANGED <<inputText, selectedImages, segments, estimatedWaitTime,
                            isProcessing, isModalOpen, status, script, audioBlob,
                            isPlaying, gens>>]_vars

\* handleGenerate has run without any content and nothing was started
C9_Witness ==
    /\ studioEvent.name = "handleGenerate"
    /\ Len(selectedSpeakers) = 2
    /\ inputText = <<>> /\ selectedImages = 0 /\ segments = 0
    /\ queuePosition = Null
    /\ started = 0

(***************************************************************************)
(* Properties of voice cloning (checked under SpecAuth).                   *)
(***************************************************************************)
\* C7: a click on the clone label reaches handleVoiceClone exactly when the user
\* is pro, or a profile is loaded with clones_used < 1; otherwise (a free user
\* whose clone has been counted, or no profile) it reaches upgradeToPro and no
\* clone is started.
C7_CloneGate ==
    [][\A d \in BOOLEAN :
          ClickClone(d) =>
              IF \/ profile.plan = "pro"
                 \/ (profile.plan # "none" /\ profile.clones_used < 1)
              THEN /\ authEvent'.name = "handleVoiceClone"
                   /\ Len(cloneReads') = Len(cloneReads) + 1
              ELSE /\ authEvent'.name = "upgradeToPro"
                   /\ cloneReads' = cloneReads
                   /\ isCloning' = isCloning]_vars

\* a free user whose clone has been counted has clicked the label and was sent to
\* upgradeToPro (the upgrade did not go through)
C7_Witness ==
    /\ authEvent.name = "upgradeToPro"
    /\ profile.plan = "free"
    /\ profile.clones_used >= 1

\* the stored profile with the daily count reset to 0 and the date set to today
DailyReset == [dbProfile EXCEPT !.daily_generation_count = 0, !.last_generation_date = today]

\* C19 as stated: a fetchProfile that loads a profile whose last_generation_date is
\* not today leaves count 0 and today's date in the database and in the local
\* profile; one that loads a profile dated today keeps the stored count.
C19_ResetInDatabaseAndProfile ==
    [][\A f \in FetchCases :
          ((FetchProfile(f.outcome, f.updOk) \/ SignIn(f.outcome, f.updOk))
              /\ f.outcome = "ok")
          => IF dbProfile.last_generation_date # today
             THEN profile' = DailyReset /\ dbProfile' = DailyReset
             ELSE profile' = dbProfile /\ dbProfile' = dbProfile]_vars

\* C19 (amended): such a fetchProfile sets count 0 and today's date in the local
\* profile and sends the same update to the database, whose row is reset when the
\* update succeeds and stays as it was when it fails; a profile dated today is
\* taken as stored and the database is left alone.
C19_DailyReset ==
    [][\A f \in FetchCases :
          ((FetchProfile(f.outcome, f.updOk) \/ SignIn(f.outcome, f.updOk))
              /\ f.outcome = "ok")
          => IF dbProfile.last_generation_date # today
             THEN /\ profile' = DailyReset
                  /\ dbProfile' = IF f.updOk THEN DailyReset ELSE dbProfile
             ELSE profile' = dbProfile /\ dbProfile' = dbProfile]_vars

\* a profile with a count of 1 from the day before was loaded on the next day: the
\* count is 0 and the date is today's in the profile and in the database
C19_Witness ==
    /\ today = 2
    /\ profile.plan = "free"
    /\ profile.daily_generation_count = 0
    /\ profile.last_generation_date = 2
    /\ dbProfile = profile

C10_PrebuiltNeverDeleted ==
    [][/\ \A r \in Rows(table) : r.isPrebuilt = 1 => r \in Rows(table')
       /\ \A id \in DeleteIds :
             DeleteSpeaker(id) =>
                 /\ response'.success
                 /\ (~(\E r \in Rows(table) : r.id = id /\ r.isPrebuilt = 0)
                        => table' = table)]_vars

\* a DELETE of a pre-built id has been answered after a custom speaker was created
C10_Witness ==
    /\ response.op = "DELETE"
    /\ response.id \in 1..Len(seedSpeakers)
    /\ response.success
    /\ sqliteSequence > Len(seedSpeakers)
    /\ \A j \in 1..Len(seedSpeakers) : \E r \in Rows(table) : r.id = j /\ r.isPrebuilt = 1

C12_AllOrNothing ==
    serverPc = "answered" =>
        IF Len(pdfRequest) = 0
        THEN pdfResponse.status = 400
        ELSE IF \A i \in 1..Len(pdfRequest) : pdfRequest[i].parses
        THEN /\ pdfResponse.status = 200
             /\ pdfResponse.results =
                    [i \in 1..Len(pdfRequest) |->
                        [name |-> pdfRequest[i].originalname, text |-> PdfText(pdfRequest[i])]]
        ELSE /\ pdfResponse.status = 500
             /\ pdfResponse.results = <<>>

\* C13: when the fetch of handlePdfUpload fails or is answered with an error, the
\* user is asked to paste the text, inputText and uploadedFiles stay as they were,
\* the status is cleared and isProcessing is false; isProcessing is false whenever
\* handlePdfUpload has finished.
C13_GracefulFailure ==
    [][/\ ((\E f \in FetchFailures : FetchFailed(f))
            \/ (PdfResponseHandled /\ pdfResponse.status # 200))
          => /\ pdfAlert' = "Server-side PDF parsing is unavailable in this demo environment."
             /\ inputText' = inputText
             /\ uploadedFiles' = uploadedFiles
             /\ status' = ""
             /\ isProcessing' = FALSE
       /\ (uploadPc' = "done" => isProcessing' = FALSE)]_vars

\* the route answered 500 for a file that does not parse and handlePdfUpload has
\* finished with the text the user had typed
C13_Witness ==
    /\ uploadPc = "done"
    /\ pdfResponse.status = 500
    /\ \E i \in 1..Len(pdfRequest) : ~pdfRequest[i].parses
    /\ pdfAlert = "Server-side PDF parsing is unavailable in this demo environment."
    /\ inputText = TypedText
    /\ status = ""
    /\ ~isProcessing

(***************************************************************************)
(* Properties of the SpeakerManager without a backend (checked under       *)
(* SpecLocal).                                                             *)
(***************************************************************************)
\* the custom speakers that 'custom_speakers' holds
StoredCustom == JSONParse(GetItemOrEmpty)

\* C14: with the backend unavailable handleAddSpeaker appends the new speaker to
\* 'custom_speakers', every fetchSpeakers shows the default speakers followed by all
\* stored custom speakers, and no step loses a stored custom speaker.
C14_LocalPersistence ==
    [][/\ \A i \in 1..MaxAdds :
             AddSpeakerFallback(i) =>
                 /\ Len(StoredCustom') = Len(StoredCustom) + 1
                 /\ StoredCustom'[Len(StoredCustom')].name = pendingAdds[i]
                 /\ StoredCustom'[Len(StoredCustom')].isPrebuilt = 0
       /\ FetchSpeakersFallback => speakers' = DEFAULT_SPEAKERS \o StoredCustom
       /\ Len(StoredCustom') >= Len(StoredCustom)
       /\ \A j \in 1..Len(StoredCustom) : StoredCustom'[j] = StoredCustom[j]]_vars

\* two custom speakers were added, the page was loaded again and shows both after
\* the default speakers
C14_Witness ==
    /\ Len(StoredCustom) = 2
    /\ pendingAdds = <<>>
    /\ pendingFetches = 0
    /\ Len(speakers) = Len(DEFAULT_SPEAKERS) + 2
    /\ speakers = DEFAULT_SPEAKERS \o StoredCustom

(***************************************************************************)
(* Properties of generatePodcastScript (checked under SpecScript).         *)
(***************************************************************************)
\* 150 words per minute of the duration strings of the claim
WordsAt150PerMinute(d) ==
    CASE d = Minutes(<<"3">>) -> 450
      [] d = Minutes(<<"5">>) -> 750
      [] d = Minutes(<<"1", "0">>) -> 1500
      [] d = Minutes(<<"1", "5">>) -> 2250
      [] d = Minutes(<<"3", "0">>) -> 4500
      [] d = Minutes(<<"4", "5">>) -> 6750
      [] d = OneHour -> 9000
      [] d = Hours("2") -> 18000
      [] d = Hours("3") -> 27000
      [] OTHER -> 750

\* C15: the word count the prompt asks for is 150 words per minute of the duration:
\* 450, 750, 1500, 2250, 4500, 6750, 9000, 18000 and 27000 for the nine duration
\* strings, and 750 for any other string.
C15_TargetWordCount ==
    scriptPc # "idle" => targetWordCount = WordsAt150PerMinute(duration)

(***************************************************************************)
(* Properties of the queue and of startGeneration (checked under           *)
(* SpecStudio).                                                            *)
(***************************************************************************)
\* C18: handleGenerate of a free user starts nothing and sets a queue position
\* between 5 and 20; a tick takes exactly 1 from the position, which is never below
\* 0; startGeneration is called once per step, and only by the queue at position 0,
\* which is then cleared to null, or by handleGenerate of a pro user, which leaves
\* the queue alone; Cancel clears the queue and starts nothing.
C18_FreeUserQueue ==
    [][/\ (ClickGenerate /\ canGenerate /\ SpeakersOk /\ HasContent) =>
                 IF isPro
                 THEN /\ started' = started + 1
                      /\ UNCHANGED <<queuePosition, estimatedWaitTime>>
                 ELSE /\ started' = started
                      /\ gens' = gens
                      /\ queuePosition' \in 5..20
       /\ QueueTick => (queuePosition' = queuePosition - 1 /\ queuePosition' >= 0)
       /\ (queuePosition' = Null \/ queuePosition' >= 0)
       /\ started' # started =>
             /\ started' = started + 1
             /\ Len(gens') = Len(gens) + 1
             /\ \/ queuePosition = 0 /\ queuePosition' = Null /\ estimatedWaitTime' = Null
                \/ isPro /\ studioEvent'.name = "handleGenerate"
                         /\ UNCHANGED <<queuePosition, estimatedWaitTime>>
       /\ CancelQueue =>
             /\ queuePosition' = Null /\ estimatedWaitTime' = Null
             /\ started' = started /\ gens' = gens]_vars

\* the queue of a free user has run down to 0 and has started the generation
C18_Witness ==
    /\ started = 1
    /\ Len(gens) = 1
    /\ ~gens[1].isPro
    /\ gens[1].pc = "script"
    /\ queuePosition = Null
    /\ estimatedWaitTime = Null
    /\ isProcessing

\* C20: when the script or the audio generation of a startGeneration call fails, the
\* status is the error message, the modal is closed, isProcessing is false, no audio
\* blob is set and no counter of the profile changes; when only the cover generation
\* fails the call goes on to the audio with a script that has no cover image.
C20_GenerationFailure ==
    [][\A g \in 1..MaxStarts :
          /\ (ScriptDone(g, FALSE) \/ AudioDone(g, FALSE, TRUE, "ok", TRUE))
                => /\ status' = "Error: Failed to generate podcast."
                   /\ ~isModalOpen'
                   /\ ~isProcessing'
                   /\ audioBlob' = audioBlob
                   /\ (started = 1 => ~audioBlob')
                   /\ UNCHANGED <<profile, dbProfile>>
                   /\ Len(gens') = Len(gens) - 1
          /\ CoverDone(g, "none")
                => /\ gens'[g].pc = "audio"
                   /\ script'.coverImageUrl = "none"
                   /\ status' = "Generating audio (this may take a moment)..."
                   /\ UNCHANGED <<isProcessing, isModalOpen, audioBlob, profile, dbProfile>>]_vars

\* the cover generation failed, the call went on to the audio, and the audio
\* generation failed
C20_Witness ==
    /\ started = 1
    /\ gens = <<>>
    /\ status = "Error: Failed to generate podcast."
    /\ script.title = "title"
    /\ script.coverImageUrl = "none"
    /\ ~isModalOpen
    /\ ~isProcessing
    /\ ~audioBlob

(***************************************************************************)
(* Properties of generatePodcastAudio at its edges (checked under          *)
(* SpecAudio).                                                             *)
(***************************************************************************)
\* C21: for a script with zero lines generatePodcastAudio issues no TTS request,
\* never calls onProgress, and rejects with 'Failed to generate audio. No audio data
\* returned.' instead of returning empty audio.
C21_EmptyScriptRejects ==
    (Len(scriptLines) = 0 /\ mainState # "idle") =>
        /\ mainState = "rejected"
        /\ rejection = NoAudioError
        /\ rejection.kind = "Failed to generate audio. No audio data returned."
        /\ returned = None
        /\ progressCalls = <<>>
        /\ completedCount = 0
        /\ \A k \in DOMAIN requestsSent : requestsSent[k] = 0
        /\ InFlight = {}

\* the call was made with a script of zero lines and has rejected
C21_Witness ==
    /\ Len(scriptLines) = 0
    /\ mainState = "rejected"
    /\ chunkPrompts = <<>>

(***************************************************************************)
(* Properties of the start-up seeding (checked under SpecServer).          *)
(***************************************************************************)
\* the names of rows j..Len(tbl) of a table, and whether all of them are pre-built
NamesFrom(tbl, j) == [i \in 1..(Len(tbl) - j + 1) |-> tbl[j + i - 1].name]
PrebuiltFrom(tbl, j) == \A i \in j..Len(tbl) : tbl[i].isPrebuilt = 1
SeedNames == [i \in 1..Len(seedSpeakers) |-> seedSpeakers[i].name]

\* no name is held by two pre-built rows
PrebuiltOnce(tbl) ==
    \A i, j \in 1..Len(tbl) :
        (tbl[i].isPrebuilt = 1 /\ tbl[j].isPrebuilt = 1 /\ tbl[i].name = tbl[j].name) => i = j

C23_DeletedNotDisplayed ==
    \A id \in deleteDone : id \notin Ids(speakers)

\* C24: once generatePodcastAudio has rejected because a chunk ran out of attempts,
\* no TTS request is issued or retried for any chunk and onProgress is not called
\* again.
C24_NothingAfterRejection ==
    [][(mainState = "rejected" /\ exhausted # <<>>)
          => UNCHANGED <<requestsSent, progressCalls>>]_vars

(***************************************************************************)
(* Termination of generatePodcastAudio (checked under SpecAudioFair).      *)
(***************************************************************************)
\* the generateContent calls made so far, over all chunks
RECURSIVE SumFrom(_, _)
SumFrom(f, k) == IF k \notin DOMAIN f THEN 0 ELSE f[k] + SumFrom(f, k + 1)
TotalRequests == SumFrom(requestsSent, 0)

Settled == mainState \in {"resolved", "rejected"}

\* C25: provided every TTS request eventually returns or fails, a call of
\* generatePodcastAudio eventually resolves or rejects, and at no time has it issued
\* more than 3 * ceil(lines / 10) TTS requests in total.
C25_Terminates ==
    /\ [](TotalRequests <= 3 * ((Len(scriptLines) + 9) \div 10))
    /\ (mainState = "awaiting") ~> Settled

\* a call for at least 2 chunks has resolved after every chunk needed all 3 attempts
C25_Witness ==
    /\ mainState = "resolved"
    /\ totalChunks >= 2
    /\ TotalRequests = 3 * totalChunks
    /\ InFlight = {}

====
